---- MODULE Spec2Model ----
(***************************************************************************)
(* A state-machine model of the Solana sniping bot.                        *)
(*                                                                         *)
(*   - the RealTimePoolMonitor of realtime_pool_monitor.js (log            *)
(*     subscription, signature deduplication, transaction lookup);         *)
(*   - the main bot (sniper_birdeye.js, src/unnamed/part_000): the filter  *)
(*     stage, the safety checker, the execution engine, the portfolio and  *)
(*     snipe-log files and the notifier.                                   *)
(*                                                                         *)
(* JavaScript runs the bot on one event loop: the code between two awaits  *)
(* runs without interruption, so every action below is one such segment    *)
(* (from the resumption of an await to the next await or to the return).   *)
(* Answers of the outside world (RPC, Jupiter, Birdeye, Telegram) are      *)
(* drawn with \E when the awaited call resolves.                           *)
(***************************************************************************)
EXTENDS Integers, Sequences, FiniteSets, TLC

(***************************************************************************)
(* Bounds of the model.                                                    *)
(***************************************************************************)
NSigs == 2              \* distinct transaction signatures
MaxDeliveries == 2      \* deliveries of one signature to the log callback
MaxStarts == 2          \* startMonitoring calls
NTasks == 2             \* polling passes and real-time handler calls started
MaxTicks == 1           \* advances of the clock

Sigs == 1..NSigs

(***************************************************************************)
(* Program constants.                                                      *)
(***************************************************************************)
WSOL == "So11111111111111111111111111111111111111112"
USDC == "EPjFWdd5AufqSSqeM2qN1xzybapC8G4wEGGkZwyTDt1v"
USDT == "Es9vMFrzaCERmJfrF4H2FYD4KCoNkY11McCe8BenwNYB"
NoKey == "undefined"     \* accounts[i]?.pubkey of a missing position

VARIABLES
    \* ---- RealTimePoolMonitor ----
    isMonitoring,       \* this.isMonitoring
    subscriptions,      \* log subscriptions registered by connection.onLogs
    starts,             \* startMonitoring calls made so far
    seenTransactions,   \* this.seenTransactions
    deliveries,         \* per signature: log events handed to the callback
    lookups,            \* per signature: getParsedTransaction calls started
    inflight,           \* per signature: callbacks awaiting their lookup
    emitted,            \* the pool infos handed to onNewPool, in order
    caught,             \* signatures whose processing error was caught locally
    escaped,            \* signatures whose handler promise rejected unobserved
    dropped,            \* signatures whose lookup gave no pool info
    unseen,             \* per signature: callbacks that passed the seen test
    started,            \* the signatures whose lookup was started, in order
    stoppedDeliveries,  \* signatures first delivered since stopMonitoring returned
                        \* and before the next startMonitoring
    \* ---- main bot ----
    DRY_RUN,            \* the DRY_RUN setting (line 44)
    ENABLE_TELEGRAM,    \* bot token and chat id are both configured (line 53)
    now,                \* Date.now(), in seconds
    ticks,              \* advances of the clock so far
    previouslySeenTokens,   \* the set of line 83
    passes,             \* the token lists the polling passes were answered, in order
    tasks,              \* the asynchronous calls in flight, by task id
    portfolio,          \* the content of portfolio.json
    snipeLog,           \* the content of snipes_log.json
    notifications,      \* the sendTelegramMessage calls, in order
    txCount,            \* transactions accepted by sendRawTransaction
    \* ---- RealTimePoolMonitor, account-change mode ----
    accountSubs,        \* per onProgramAccountChange subscription: runTimestamp
    seenPools,          \* this.seenPools
    changes,            \* the account notifications handled so far, in order
    emittedPools,       \* the pool infos this mode handed to onNewPool
    \* ---- the process ----
    env,                \* process.env: the two required credentials
    exited,             \* process.exit was called while the module loaded
    viewer,             \* the portfolio viewer, a process of its own
    writers             \* other bot processes at their addTokenToPortfolio

monVars == <<isMonitoring, subscriptions, starts, seenTransactions, deliveries,
             lookups, inflight, emitted, caught, escaped, dropped, unseen, started, stoppedDeliveries>>

botVars == <<DRY_RUN, ENABLE_TELEGRAM, now, ticks, previouslySeenTokens, passes, tasks,
             portfolio, snipeLog, notifications, txCount>>

accVars == <<accountSubs, seenPools, changes, emittedPools>>

procVars == <<env, exited, viewer, writers>>

vars == <<monVars, botVars, accVars, procVars>>

(***************************************************************************)
(* Start of the process (part_000 lines 12-64).                            *)
(***************************************************************************)
\* What an environment variable can hold: it is not set, it is set to the
\* empty string, or it holds a value.
EnvValues == {"undefined", "", "key"}

\* !value (lines 56 and 61): undefined and the empty string are falsy.
Falsy(value) == value = "undefined" \/ value = ""

\* A start that does not look at the credentials.
ValidationNever(e) == FALSE

\* Validation (lines 55-64): process.exit(1) when a credential is missing.
Validation(e) == Falsy(e.BIRDEYE_API_KEY) \/ Falsy(e.PRIVATE_KEY_BASE58)

\* The module has loaded: the credentials were read and checked.
ProcessInit ==
    /\ env \in [BIRDEYE_API_KEY : EnvValues, PRIVATE_KEY_BASE58 : EnvValues]
    /\ exited = Validation(env)

\* The process is alive: nothing runs after process.exit.
Running == ~exited

(***************************************************************************)
(* RealTimePoolMonitor                                                     *)
(***************************************************************************)

\* constructor: realtime_pool_monitor.js 12-17
MonitorInit ==
    /\ isMonitoring = FALSE
    /\ subscriptions = 0
    /\ starts = 0
    /\ seenTransactions = {}
    /\ deliveries = [s \in Sigs |-> 0]
    /\ lookups = [s \in Sigs |-> 0]
    /\ inflight = [s \in Sigs |-> 0]
    /\ emitted = <<>>
    /\ caught = {}
    /\ escaped = {}
    /\ dropped = {}
    /\ stoppedDeliveries = {}
    /\ unseen = [s \in Sigs |-> 0]
    /\ started = <<>>

\* What getParsedTransaction can answer: it throws, it finds no transaction,
\* or it returns the account keys, of which positions 8 and 9 may be missing.
TxResults ==
    {[kind |-> "throw", base |-> NoKey, quote |-> NoKey],
     [kind |-> "null",  base |-> NoKey, quote |-> NoKey],
     [kind |-> "tx",    base |-> NoKey, quote |-> WSOL],
     [kind |-> "tx",    base |-> "TokenA", quote |-> NoKey],
     [kind |-> "tx",    base |-> "TokenA", quote |-> WSOL],
     [kind |-> "tx",    base |-> "TokenA", quote |-> USDC]}

\* What the onNewPool handler does when called: it returns (a promise that
\* resolves), it throws synchronously, or it returns a promise that rejects.
HandlerOutcomes == {"ok", "throws", "rejects"}

\* The seen-set test of the log callback (line 41).
AlreadySeen(seen, sig) == sig \in seen

\* A callback that never records the signature.
MarkSeenForgets(seen, sig) == seen

\* The seen-set insert of the log callback (line 42).
MarkSeen(seen, sig) == seen \cup {sig}

\* logs.logs.some(log => log.includes('initialize2')) (line 45); an event is
\* abstracted to its signature and to whether a log line holds the marker.
IsPoolInit(hasMarker) == hasMarker

\* extractPoolInfoFromTransaction (lines 120-156): the empty sequence stands
\* for the returned null, a one-element sequence holds the pool info.
ExtractPoolInfo(sig, tx) ==
    IF tx.kind = "throw" THEN <<>>
    ELSE IF tx.kind = "null" THEN <<>>
    ELSE IF tx.base = NoKey \/ tx.quote = NoKey THEN <<>>
    ELSE <<[address |-> tx.base, baseMint |-> tx.base, quoteMint |-> tx.quote,
          price |-> 0, mc |-> 0, liquidity |-> 0,
          signature |-> sig, detectionMethod |-> "transaction_log"]>>

\* startMonitoring (lines 19-33) with setupLogMonitoring (35-61): registers
\* one onLogs subscription unless monitoring is already active.
StartMonitoring ==
    /\ Running
    /\ starts < MaxStarts
    /\ starts' = starts + 1
    /\ IF isMonitoring
       THEN UNCHANGED <<isMonitoring, subscriptions, stoppedDeliveries>>
       ELSE /\ isMonitoring' = TRUE
            /\ subscriptions' = subscriptions + 1
            /\ stoppedDeliveries' = {}
    /\ UNCHANGED <<seenTransactions, deliveries, lookups, inflight, emitted,
                   caught, escaped, dropped, unseen, started>>
    /\ UNCHANGED <<botVars, accVars, procVars>>

\* stopMonitoring (lines 158-161): clears the flag; the subscription stays.
StopMonitoring ==
    /\ Running
    /\ isMonitoring' = FALSE
    /\ UNCHANGED <<subscriptions, starts, seenTransactions, deliveries, lookups,
                   inflight, emitted, caught, escaped, dropped, unseen, started, stoppedDeliveries>>
    /\ UNCHANGED <<botVars, accVars, procVars>>

\* The log callback up to its first await (lines 40-50): the seen test and the
\* insert run in one uninterrupted segment; a pool-initialisation event then
\* starts the transaction lookup.
LogCallback(sig, hasMarker) ==
    /\ Running
    /\ subscriptions > 0
    /\ deliveries[sig] < MaxDeliveries
    /\ deliveries' = [deliveries EXCEPT ![sig] = @ + 1]
    /\ IF AlreadySeen(seenTransactions, sig)
       THEN UNCHANGED <<seenTransactions, lookups, inflight, unseen, started,
                        stoppedDeliveries>>
       ELSE /\ seenTransactions' = MarkSeen(seenTransactions, sig)
            /\ unseen' = [unseen EXCEPT ![sig] = @ + 1]
            /\ stoppedDeliveries' = IF isMonitoring THEN stoppedDeliveries
                                    ELSE stoppedDeliveries \cup {sig}
            /\ IF IsPoolInit(hasMarker)
               THEN /\ lookups' = [lookups EXCEPT ![sig] = @ + 1]
                    /\ inflight' = [inflight EXCEPT ![sig] = @ + 1]
                    /\ started' = Append(started, sig)
               ELSE UNCHANGED <<lookups, inflight, started>>
    /\ UNCHANGED <<isMonitoring, subscriptions, starts, emitted, caught, escaped,
                   dropped>>
    /\ UNCHANGED <<botVars, accVars, procVars>>

\* The log callback after its await (lines 50-56): the lookup resolved; a
\* pool info is handed to onNewPool, whose promise is not awaited.
LookupDone(sig, tx, handler) ==
    /\ Running
    /\ inflight[sig] > 0
    /\ inflight' = [inflight EXCEPT ![sig] = @ - 1]
    /\ LET poolInfo == ExtractPoolInfo(sig, tx) IN
       IF poolInfo = <<>>
       THEN /\ dropped' = dropped \cup {sig}
            /\ UNCHANGED <<emitted, caught, escaped>>
       ELSE /\ emitted' = Append(emitted, poolInfo[1])
            /\ UNCHANGED dropped
            /\ caught' = IF handler = "throws" THEN caught \cup {sig} ELSE caught
            /\ escaped' = IF handler = "rejects" THEN escaped \cup {sig} ELSE escaped
    /\ UNCHANGED <<isMonitoring, subscriptions, starts, seenTransactions,
                   deliveries, lookups, unseen, started, stoppedDeliveries>>
    /\ UNCHANGED <<botVars, accVars, procVars>>

MonitorNext ==
    \/ StartMonitoring
    \/ StopMonitoring
    \/ \E sig \in Sigs, hasMarker \in BOOLEAN : LogCallback(sig, hasMarker)
    \/ \E sig \in Sigs, tx \in TxResults, handler \in HandlerOutcomes :
          LookupDone(sig, tx, handler)

\* How many times onNewPool was invoked for a signature.
EmitCount(sig) == Cardinality({i \in DOMAIN emitted : emitted[i].signature = sig})

(***************************************************************************)
(* Main bot: numbers.                                                      *)
(*                                                                         *)
(* Amounts in whole dollars (liquidity, market cap, volume) are integers.  *)
(* A price or a token supply is a decimal number m * 10^e with a one-digit *)
(* mantissa, [m |-> 1..9, e |-> exponent], and zero is [m |-> 0, e |-> 0]: *)
(* the thresholds 0.000001, 1000, 1e6 and 1e12 lie far outside the integers*)
(* a checker can enumerate.  Times are in seconds, as lastTradeUnixTime.   *)
(***************************************************************************)
Sci(m, e) == [m |-> m, e |-> e]
SciZero == Sci(0, 0)

\* a < b for non-negative decimal numbers
SciLess(a, b) ==
    IF a.m = 0 THEN b.m > 0
    ELSE IF b.m = 0 THEN FALSE
    ELSE a.e < b.e \/ (a.e = b.e /\ a.m < b.m)

\* a / 10^d
SciShift(a, d) == IF a.m = 0 THEN a ELSE Sci(a.m, a.e - d)

(***************************************************************************)
(* Strings that the code inspects are sequences of characters.             *)
(***************************************************************************)
Upper == <<"A","B","C","D","E","F","G","H","I","J","K","L","M",
           "N","O","P","Q","R","S","T","U","V","W","X","Y","Z">>
Lower == <<"a","b","c","d","e","f","g","h","i","j","k","l","m",
           "n","o","p","q","r","s","t","u","v","w","x","y","z">>

\* String.prototype.toLowerCase
ToLowerCase(str) ==
    [i \in DOMAIN str |->
        IF \E k \in DOMAIN Upper : Upper[k] = str[i]
        THEN Lower[CHOOSE k \in DOMAIN Upper : Upper[k] = str[i]]
        ELSE str[i]]

\* String.prototype.includes
Includes(str, sub) ==
    \E i \in 0..(Len(str) - Len(sub)) :
        \A j \in 1..Len(sub) : str[i + j] = sub[j]

(***************************************************************************)
(* Configuration constants of the bot (part_000 lines 20-44).              *)
(***************************************************************************)
MIN_LIQUIDITY == 3000
MIN_MARKET_CAP == 30000
MAX_MARKET_CAP == 10000000
MAX_TOKEN_AGE_MINUTES == 60
MIN_VOLUME_24H == 5000
SNIPE_AMOUNT_USDT == 1
MAX_SLIPPAGE_BPS == 500
MinPrice == Sci(1, -6)          \* 0.000001
MaxPrice == Sci(1, 3)           \* 1000
MaxChangePercent == 1000
MaxPriceImpact == 20
MaxSlippage == 5

EXCLUDED_TOKENS ==
    {WSOL, USDC, USDT,
     "mSoLzYCxHdYgdzU16g5QSh3i5K3z3KZK7ytfqcJm7So",
     "J1toso1uCk3RLmjorhTtrVwY9HJ7X8V9yYac6Y7kGCPn",
     "jupSoLaHXQiZZTSfEWMTRRgpnyFm8f6sZdosWBjx93v"}

suspiciousNames ==
    {<<"t","e","s","t">>, <<"s","c","a","m">>, <<"r","u","g">>,
     <<"f","a","k","e">>, <<"h","o","n","e","y","p","o","t">>,
     <<"s","h","i","t">>, <<"m","o","o","n">>, <<"s","a","f","e">>}

\* An absolute value that keeps the sign.
AbsKeepsSign(x) == x

\* Math.abs (line 125)
Abs(x) == IF x < 0 THEN -x ELSE x

\* A filter that looks at the bot's state: it passes tokens not seen before.
PassesSnipeFiltersUnseenOnly(token, nowSec) ==
    token.address \notin previouslySeenTokens

(***************************************************************************)
(* passesSnipeFilters (part_000 lines 85-141).  A token is the record the  *)
(* market-data API returns; a missing numeric field is 0 (both are falsy). *)
(* nowSec is Date.now() in seconds.                                        *)
(***************************************************************************)
PassesSnipeFilters(token, nowSec) ==
    /\ token.address \notin EXCLUDED_TOKENS
    /\ ~(token.liquidity = 0 \/ token.liquidity < MIN_LIQUIDITY)
    /\ ~(token.mc = 0 \/ token.mc < MIN_MARKET_CAP \/ token.mc > MAX_MARKET_CAP)
    /\ ~(token.price.m = 0 \/ SciLess(token.price, MinPrice)
                           \/ SciLess(MaxPrice, token.price))
    /\ ~(token.lastTradeUnixTime * 1000
            < nowSec * 1000 - MAX_TOKEN_AGE_MINUTES * 60 * 1000)
    /\ ~(token.v24hUSD = 0 \/ token.v24hUSD < MIN_VOLUME_24H)
    \* v24hUSD / mc < 0.05, with mc > 0 here
    /\ ~(token.v24hUSD * 100 < 5 * token.mc)
    /\ ~(token.v24hChangePercent # 0
            /\ Abs(token.v24hChangePercent) > MaxChangePercent)
    /\ \A suspicious \in suspiciousNames :
          ~(Includes(ToLowerCase(token.name), suspicious)
              \/ Includes(ToLowerCase(token.symbol), suspicious))

(***************************************************************************)
(* Safety checker (part_000 lines 147-432).                                *)
(*                                                                         *)
(* An answer of connection.getParsedAccountInfo: the call throws, finds no *)
(* account (value null), returns unparsed data, or returns the parsed mint *)
(* info.  An authority is "null" (renounced), "undefined" (field absent)   *)
(* or a key.                                                               *)
(***************************************************************************)
NaN == -999999      \* parseFloat / parseInt of a non-number

Info(mintAuth, freezeAuth, supply, decimals) ==
    [kind |-> "parsed", mintAuthority |-> mintAuth, freezeAuthority |-> freezeAuth,
     supply |-> supply, decimals |-> decimals]

NoInfo(kind) ==
    [kind |-> kind, mintAuthority |-> "undefined", freezeAuthority |-> "undefined",
     supply |-> SciZero, decimals |-> NaN]

AccountInfos ==
    {NoInfo("throw"), NoInfo("notfound"), NoInfo("unparsed"),
     Info("null", "null", Sci(1, 15), 6),        \* 1e9 tokens, 6 decimals
     Info("Auth1", "null", Sci(1, 15), 6),       \* mint authority kept
     Info("undefined", "null", Sci(1, 15), 6),   \* mintAuthority field absent
     Info("null", "Auth2", Sci(1, 15), 6),       \* freeze authority kept
     Info("null", "null", Sci(9, 10), 6),        \* 90,000 tokens: too low
     Info("null", "null", Sci(2, 21), 9),        \* 2e12 tokens: too high
     Info("null", "null", Sci(1, 15), 2)}        \* non-standard decimals

Passed == [passed |-> TRUE, reason |-> "", sellAsked |-> FALSE]
Failed(reason) == [passed |-> FALSE, reason |-> reason, sellAsked |-> FALSE]
Asked(r) == [r EXCEPT !.sellAsked = TRUE]

\* checkMintAuthority (lines 200-226)
CheckMintAuthority(acc) ==
    IF acc.kind = "throw" THEN Failed("Error")
    ELSE IF acc.kind = "notfound" THEN Failed("Token account not found")
    ELSE IF acc.kind = "parsed"
         THEN IF acc.mintAuthority = "null" THEN Passed
              ELSE Failed("Mint authority not renounced")
    ELSE Failed("Could not parse token data")

\* checkFreezeAuthority (lines 228-254)
CheckFreezeAuthority(acc) ==
    IF acc.kind = "throw" THEN Failed("Error")
    ELSE IF acc.kind = "notfound" THEN Failed("Token account not found")
    ELSE IF acc.kind = "parsed"
         THEN IF acc.freezeAuthority = "null" THEN Passed
              ELSE Failed("Freeze authority not renounced")
    ELSE Failed("Could not parse token data")

\* A supply check that treats a transport error as a pass.
CheckTokenSupplyFailOpen(acc) ==
    IF acc.kind = "throw" THEN Passed
    ELSE IF acc.kind = "notfound" THEN Passed
    ELSE IF acc.kind = "parsed"
         THEN LET uiSupply == SciShift(acc.supply, acc.decimals) IN
              IF SciLess(uiSupply, Sci(1, 6)) THEN Failed("Supply too low")
              ELSE IF SciLess(Sci(1, 12), uiSupply) THEN Failed("Supply too high")
              ELSE IF acc.decimals \notin {6, 8, 9}
                   THEN Failed("Non-standard decimals")
              ELSE Passed
    ELSE Failed("Could not parse token data")

\* checkTokenSupply (lines 256-297)
CheckTokenSupply(acc) ==
    IF acc.kind = "throw" THEN Failed("Error")
    ELSE IF acc.kind = "notfound" THEN Failed("Token account not found")
    ELSE IF acc.kind = "parsed"
         THEN LET uiSupply == SciShift(acc.supply, acc.decimals) IN
              IF SciLess(uiSupply, Sci(1, 6)) THEN Failed("Supply too low")
              ELSE IF SciLess(Sci(1, 12), uiSupply) THEN Failed("Supply too high")
              ELSE IF acc.decimals \notin {6, 8, 9}
                   THEN Failed("Non-standard decimals")
              ELSE Passed
    ELSE Failed("Could not parse token data")

(***************************************************************************)
(* An answer of the Jupiter quote endpoint: the fetch throws, the response *)
(* is not ok (status), or it carries a quote.  outAmount 0 stands for '0'  *)
(* and for an absent field, NaN for a string that is not a number (it is   *)
(* truthy and not '0', and parseFloat turns it into NaN); amounts of USDT  *)
(* are in its 6-decimal units.                                             *)
(***************************************************************************)
Quote(outAmount, priceImpactPct, slippageBps) ==
    [kind |-> "quote", status |-> 200, outAmount |-> outAmount,
     priceImpactPct |-> priceImpactPct, slippageBps |-> slippageBps]

NoQuote(kind, status) ==
    [kind |-> kind, status |-> status, outAmount |-> 0,
     priceImpactPct |-> NaN, slippageBps |-> NaN]

testAmount == 1000000       \* 1 USDT

\* x > y in JavaScript: false when either side is NaN
Gt(x, y) == x # NaN /\ y # NaN /\ x > y

\* x < y in JavaScript: false when either side is NaN
Lt(x, y) == x # NaN /\ y # NaN /\ x < y

\* A percentage is kept in units of 1/10000 percent.
Percent(p) == p * 10000

\* priceImpact (lines 368-370): buyPrice = testAmount / buyOut, sellPrice =
\* sellOut / buyOut and priceImpact = (buyPrice - sellPrice) / buyPrice * 100,
\* which is (testAmount - sellOut) / testAmount * 100 for amounts that are
\* numbers and NaN when parseFloat of either outAmount is NaN.
PriceImpact(buyOut, sellOut) ==
    IF buyOut = NaN \/ sellOut = NaN THEN NaN
    ELSE ((testAmount - sellOut) * 100) \div (testAmount \div Percent(1))

\* recoveryRate (lines 381-382): (sellOut / 1000000 / 1) * 100
RecoveryRate(sellOut) ==
    IF sellOut = NaN THEN NaN ELSE (sellOut * 100) \div (1000000 \div Percent(1))

\* priceImpact > 50 (line 373)
HoneypotImpactTooHigh(buyOut, sellOut) ==
    Gt(PriceImpact(buyOut, sellOut), Percent(50))

\* A recovery test with its threshold at 60.
HoneypotRecoveryBelow60(sellOut) == Lt(RecoveryRate(sellOut), Percent(60))

\* recoveryRate < 50 (line 384)
HoneypotRecoveryTooLow(sellOut) == Lt(RecoveryRate(sellOut), Percent(50))

\* A slippage test that looks at the sell leg only.
HoneypotSlippageSellOnly(buy, sell) == Gt(sell.priceImpactPct, 20)

\* buySlippage > 20 || sellSlippage > 20 (lines 392-395)
HoneypotSlippageTooHigh(buy, sell) ==
    Gt(buy.priceImpactPct, 20) \/ Gt(sell.priceImpactPct, 20)

\* checkHoneypot (lines 299-410); sell is looked at only when the buy quote
\* was usable: sellAsked tells whether the sell quote was requested.
CheckHoneypot(buy, sell) ==
    IF buy.kind = "throw" THEN Failed("Honeypot check error")
    ELSE IF buy.kind = "http" THEN Failed("Buy quote failed")
    ELSE IF buy.outAmount = 0
         THEN Failed("Buy quote returned 0 tokens")
    ELSE IF sell.kind = "throw" THEN Asked(Failed("Honeypot check error"))
    ELSE IF sell.kind = "http" THEN Asked(Failed("Sell quote failed"))
    ELSE IF sell.outAmount = 0
         THEN Asked(Failed("Sell quote returned 0 USDT"))
    ELSE IF HoneypotImpactTooHigh(buy.outAmount, sell.outAmount)
         THEN Asked(Failed("Excessive price impact"))
    ELSE IF HoneypotRecoveryTooLow(sell.outAmount)
         THEN Asked(Failed("Poor sell recovery"))
    ELSE IF HoneypotSlippageTooHigh(buy, sell)
         THEN Asked(Failed("Excessive slippage"))
    ELSE Asked(Passed)

\* checkHolderDistribution (lines 412-432): a placeholder that passes.
CheckHolderDistribution == Passed

HoneypotBuys ==
    {NoQuote("throw", 0), NoQuote("http", 400), Quote(0, 0, 100),
     Quote(5000, 1, 100), Quote(5000, 20, 100), Quote(5000, 25, 100),
     Quote(NaN, 1, 100)}

HoneypotSells ==
    {NoQuote("throw", 0), NoQuote("http", 400), Quote(0, 0, 100),
     Quote(990000, 1, 100), Quote(500000, 1, 100), Quote(499999, 1, 100),
     Quote(990000, 20, 100), Quote(990000, 21, 100), Quote(990000, NaN, 100)}

(***************************************************************************)
(* Main bot: tokens, tasks and files.                                      *)
(***************************************************************************)
T0 == 100000            \* Date.now() at start, in seconds
TickSec == 3660         \* one advance of the clock: 61 minutes

Token(address, name, liquidity, mc, price, lastTrade, v24hUSD, change) ==
    [address |-> address, symbol |-> name, name |-> name,
     liquidity |-> liquidity, mc |-> mc, price |-> price,
     lastTradeUnixTime |-> lastTrade, v24hUSD |-> v24hUSD,
     v24hChangePercent |-> change]

NameAlpha == <<"A","l","p","h","a">>
NameBeta == <<"B","e","t","a">>
NameUnknownToken == <<"U","n","k","n","o","w","n"," ","T","o","k","e","n">>
NameUNKNOWN == <<"U","N","K","N","O","W","N">>

TokenA == Token("TokenA", NameAlpha, 5000, 50000, Sci(1, -2), T0, 10000, 0)
TokenB == Token("TokenB", NameBeta, 8000, 90000, Sci(5, -4), T0, 20000, 10)
\* TokenA with a market cap above MAX_MARKET_CAP
TokenBig == Token("TokenC", NameAlpha, 5000, 20000000, Sci(1, -2), T0, 10000000, 0)
NoToken == Token("", <<>>, 0, 0, SciZero, 0, 0, 0)

\* What one polling pass can be answered: the token-list fetch throws, its
\* response is not ok, its body holds no token array, or both lists arrive
\* (a failed new-listings fetch is an empty list, lines 712-735).
PollAnswer(kind, newListings, tokens) ==
    [kind |-> kind, newListings |-> newListings, tokens |-> tokens]

PollAnswers ==
    {PollAnswer("throw", <<>>, <<>>),
     PollAnswer("http", <<>>, <<>>),
     PollAnswer("nodata", <<>>, <<>>),
     PollAnswer("ok", <<>>, <<>>),
     PollAnswer("ok", <<TokenA>>, <<TokenB, TokenBig>>),
     PollAnswer("ok", <<TokenA>>, <<TokenA>>),
     PollAnswer("ok", <<>>, <<TokenBig, TokenB>>)}

\* A pool info handed to handleRealTimePool; one without its own market
\* figures carries 0, as extractPoolInfoFromTransaction fills them in.
PoolInfo(address, baseMint, quoteMint, signature, liquidity, mc, price, v24hUSD) ==
    [kind |-> "poolInfo", address |-> address, baseMint |-> baseMint,
     quoteMint |-> quoteMint, signature |-> signature, liquidity |-> liquidity,
     mc |-> mc, price |-> price, v24hUSD |-> v24hUSD, lastTradeUnixTime |-> T0]

\* TokenA arriving as a pool with a wrapped-SOL quote mint
PoolA == PoolInfo("TokenA", "TokenA", WSOL, 1, 5000, 50000, Sci(1, -2), 10000)

PoolInfos ==
    {PoolA,
     PoolInfo("TokenB", "TokenB", WSOL, 1, 0, 0, SciZero, 0),
     PoolInfo("TokenA", "TokenA", USDC, 1, 0, 0, SciZero, 0),
     PoolInfo(WSOL, WSOL, WSOL, 2, 0, 0, SciZero, 0),
     PoolInfo("", "", WSOL, 2, 0, 0, SciZero, 0)}

TaskIds == 1..NTasks

\* One entry of a task's history: what the task did, in order.
\* ev: the step; what: its object (a check's name, an exit's kind); ok: its
\* result; note: the reason given; resp: the answer it was given.
NoResp == [kind |-> "none"]
Ev(ev, what, ok, note, resp) ==
    [ev |-> ev, what |-> what, ok |-> ok, note |-> note, resp |-> resp]

NoSig == [kind |-> "none", n |-> 0]
TxSig(n) == [kind |-> "tx", n |-> n]
DRY_RUN_SIMULATION == [kind |-> "DRY_RUN_SIMULATION", n |-> 0]

IdleTask ==
    [kind |-> "idle", pc |-> "idle", token |-> NoToken, queue |-> <<>>,
     att |-> 0, hist |-> <<>>, quote |-> NoQuote("none", 0), sig |-> NoSig]

\* loadPortfolio of an absent file (line 824)
EmptyPortfolio == [tokens |-> <<>>, totalInvested |-> 0]

BotInit ==
    /\ DRY_RUN \in BOOLEAN
    /\ ENABLE_TELEGRAM \in BOOLEAN
    /\ now = T0
    /\ ticks = 0
    /\ previouslySeenTokens = {}
    /\ passes = <<>>
    /\ tasks = [t \in TaskIds |-> IdleTask]
    /\ portfolio = EmptyPortfolio
    /\ snipeLog = <<>>
    /\ notifications = <<>>
    /\ txCount = 0

(***************************************************************************)
(* RealTimePoolMonitor, account-change mode                                *)
(* (realtime_pool_monitor.js 63-118).  Date.now() is in milliseconds; the  *)
(* decoded poolOpenTime is compared with it as a number.                   *)
(***************************************************************************)
MaxSetups == 2          \* setupAccountChangeMonitoring calls
MaxChanges == 3         \* account notifications handled
PoolIds == {"PoolX", "PoolY"}

\* Date.now()
DateNow(t) == t * 1000

\* constructor: realtime_pool_monitor.js 12-17
AccountInit ==
    /\ accountSubs = <<>>
    /\ seenPools = {}
    /\ changes = <<>>
    /\ emittedPools = <<>>

\* What LIQUIDITY_STATE_LAYOUT_V4.decode makes of the account data: it
\* throws, or it gives a pool state with its open time.  The open times lie
\* on and around the two values runTimestamp can take, and one is a chain
\* time in seconds.
AccountDatas ==
    {[kind |-> "bad",   baseMint |-> NoKey,    poolOpenTime |-> 0],
     [kind |-> "state", baseMint |-> "TokenA", poolOpenTime |-> T0 + 60],
     [kind |-> "state", baseMint |-> "TokenA", poolOpenTime |-> DateNow(T0)],
     [kind |-> "state", baseMint |-> "TokenA", poolOpenTime |-> DateNow(T0) + 1],
     [kind |-> "state", baseMint |-> "TokenA",
      poolOpenTime |-> DateNow(T0 + TickSec) + 1]}

\* A callback that takes every pool for a new one.
PoolSeenNever(seen, poolId) == FALSE

\* this.seenPools.has(poolId) (line 73)
PoolSeen(seen, poolId) == poolId \in seen

\* poolOpenTime > runTimestamp (line 85)
OpenedAfter(poolOpenTime, runTimestamp) == poolOpenTime > runTimestamp

\* The pool info of lines 88-100.
AccountPoolInfo(poolId, poolState, at) ==
    [address |-> poolState.baseMint, poolId |-> poolId,
     baseMint |-> poolState.baseMint, quoteMint |-> WSOL,
     symbol |-> "UNKNOWN", name |-> "Unknown Token",
     price |-> 0, mc |-> 0, liquidity |-> 0,
     lastTradeUnixTime |-> at, detectionMethod |-> "account_change"]

\* The pool infos the callback hands to onNewPool for one notification
\* (lines 71-106): none for a pool seen before, for data that does not
\* decode, or for a pool that opened no later than runTimestamp.
AccountChangeEmits(seen, poolId, data, runTimestamp, at) ==
    IF PoolSeen(seen, poolId) THEN <<>>
    ELSE IF data.kind = "bad" THEN <<>>
    ELSE IF OpenedAfter(data.poolOpenTime, runTimestamp)
         THEN <<AccountPoolInfo(poolId, data, at)>>
         ELSE <<>>

\* setupAccountChangeMonitoring (lines 63-118): captures runTimestamp and
\* registers one onProgramAccountChange subscription.
SetupAccountChangeMonitoring ==
    /\ Running
    /\ Len(accountSubs) < MaxSetups
    /\ accountSubs' = Append(accountSubs, DateNow(now))
    /\ UNCHANGED <<seenPools, changes, emittedPools>>
    /\ UNCHANGED <<monVars, botVars, procVars>>

\* The account-change callback of subscription sub (lines 70-110); it holds
\* no await, so it runs in one segment.  The pool is recorded as seen before
\* its data is decoded.
AccountChange(sub, poolId, data) ==
    /\ Running
    /\ sub \in DOMAIN accountSubs
    /\ Len(changes) < MaxChanges
    /\ LET out == AccountChangeEmits(seenPools, poolId, data, accountSubs[sub],
                                     now)
       IN /\ seenPools' = seenPools \cup {poolId}
          /\ emittedPools' = emittedPools \o out
          /\ changes' = Append(changes,
                 [poolId |-> poolId, data |-> data,
                  runTimestamp |-> accountSubs[sub], calls |-> Len(out)])
    /\ UNCHANGED accountSubs
    /\ UNCHANGED <<monVars, botVars, procVars>>

\* Other bot processes run in the same directory; each is seen at the one
\* place where it meets this one, its addTokenToPortfolio.
OtherWriters == {NTasks + 1, NTasks + 2}

WriterIdle == [pc |-> "idle", loaded |-> EmptyPortfolio, token |-> NoToken]

WritersInit == writers = [w \in OtherWriters |-> WriterIdle]

\* The portfolio viewer before it is run.
ViewerIdle ==
    [pc |-> "idle", which |-> "", loaded |-> EmptyPortfolio,
     updatedTokens |-> <<>>, sent |-> ""]

ViewerInit == viewer = ViewerIdle

Init == MonitorInit /\ BotInit /\ AccountInit /\ ProcessInit /\ ViewerInit /\ WritersInit

SpecMonitor == Init /\ [][MonitorNext]_vars

(***************************************************************************)
(* Main bot: detection, filter stage and safety checker as steps of a task.*)
(***************************************************************************)
\* Task t goes on as task; the monitor is not touched by the bot's steps.
Put(t, task) ==
    /\ Running
    /\ tasks' = [tasks EXCEPT ![t] = task]
    /\ UNCHANGED <<monVars, accVars, procVars>>

\* The history keeps the answers given (resp) to its latest check only: the
\* entries before a check lose theirs, but for the buy quote of the honeypot
\* check, kept with the request of its sell quote.
Strip(hist, keep) ==
    [i \in DOMAIN hist |->
        IF hist[i].ev \in keep THEN hist[i] ELSE [hist[i] EXCEPT !.resp = NoResp]]

Note(task, e) ==
    IF e.ev = "check"
    THEN [task EXCEPT !.hist =
            Append(Strip(@, IF e.what = "honeypot" THEN {"sellquote"} ELSE {}), e)]
    ELSE [task EXCEPT !.hist = Append(@, e)]

\* Where a task goes when its work on the current token ends: back to its
\* caller, the polling loop or the real-time handler.
After(task) == "next"

\* A pass or a handler call that has returned: its locals are gone.
Returned(task) == [IdleTask EXCEPT !.kind = task.kind, !.pc = "done", !.att = task.att]

\* An exit that does not return: the attempt goes on to its bookkeeping.
ExitGoesOn(task, what, ok) ==
    [Note(task, Ev("exit", what, ok, "", NoResp)) EXCEPT !.pc = "decimals"]

\* A return of snipeToken, or of its caller before snipeToken is reached.
Exit(task, what, ok) ==
    [Note(task, Ev("exit", what, ok, "", NoResp)) EXCEPT !.pc = After(task)]

\* isNewToken (lines 143-145)
IsNewToken(token, seen) == token.address \notin seen

\* A filter stage that keeps every token.
FilteredTokensAll(evaluated) == evaluated

\* allTokens.filter(passesSnipeFilters) (line 772); evaluated pairs every
\* token with what passesSnipeFilters returned for it.
FilteredTokens(evaluated) == SelectSeq(evaluated, LAMBDA e : e.passed)

\* A loop over every new token.
FirstThreeTakesAll(seq) == seq

\* newTokens.slice(0, 3) (line 786)
FirstThree(seq) == SubSeq(seq, 1, IF Len(seq) < 3 THEN Len(seq) ELSE 3)

\* One evaluation of passesSnipeFilters by the filter stage: the token, the
\* time and the result.
Evaluation(item) ==
    Ev("filter", item.token.address, item.passed, "",
       [kind |-> "evaluation", token |-> item.token, at |-> item.at])

\* The start of one iteration of the polling loop (lines 786-799): the
\* token was kept by the filter stage; checkTokenSafety begins with the
\* account lookup of checkMintAuthority.
BeginToken(task, item, rest) ==
    [task EXCEPT !.token = item.token, !.queue = rest, !.att = @ + 1,
                 !.quote = NoQuote("none", 0), !.sig = NoSig,
                 !.hist = <<Evaluation(item)>>,
                 !.pc = "mint"]

\* A pass that marks no token as seen.
AddSeenTokensNone(seen, allTokens) == seen

\* allTokens.forEach(token => previouslySeenTokens.add(token.address))
\* (lines 781-783)
AddSeenTokens(seen, allTokens) ==
    seen \cup {allTokens[i].address : i \in DOMAIN allTokens}

\* What a pass was answered: the new listings and the token list (lines
\* 742-760), with the task that ran the pass and the time of its filter
\* stage.
Pass(t, at, ans) ==
    [by |-> t, at |-> at, newListings |-> ans.newListings, tokens |-> ans.tokens]

\* setInterval(fetchAndAnalyzeTokens) and the initial call (lines 1117-1120):
\* a pass starts; passes may overlap.
StartPoll(t) ==
    /\ tasks[t].kind = "idle"
    /\ Put(t, [tasks[t] EXCEPT !.kind = "poll", !.pc = "fetch"])
    /\ UNCHANGED <<DRY_RUN, ENABLE_TELEGRAM, now, ticks, previouslySeenTokens, passes,
                   portfolio, snipeLog, notifications, txCount>>

\* fetchAndAnalyzeTokens from the answer of its two fetches to the first
\* await of the loop (lines 751-799), and its catch (lines 808-811).
PollFetched(t, ans) ==
    /\ tasks[t].kind = "poll" /\ tasks[t].pc = "fetch"
    /\ LET allTokens == ans.newListings \o ans.tokens
           evaluated == [i \in DOMAIN allTokens |->
                            [token |-> allTokens[i], at |-> now,
                             passed |-> PassesSnipeFilters(allTokens[i], now)]]
           filteredTokens == FilteredTokens(evaluated)
           newTokens == SelectSeq(filteredTokens,
                            LAMBDA e : IsNewToken(e.token, previouslySeenTokens))
           queue == FirstThree(newTokens)
       IN
       IF ans.kind = "throw"
       THEN /\ notifications' = Append(notifications,
                   [kind |-> "error", mint |-> "", sig |-> NoSig,
                    by |-> <<t, 0>>, posted |-> ENABLE_TELEGRAM])
            /\ Put(t, [tasks[t] EXCEPT !.pc = "done"])
            /\ UNCHANGED <<previouslySeenTokens, passes>>
       ELSE IF ans.kind # "ok"
       THEN /\ Put(t, [tasks[t] EXCEPT !.pc = "done"])
            /\ UNCHANGED <<previouslySeenTokens, passes, notifications>>
       ELSE /\ previouslySeenTokens' = AddSeenTokens(previouslySeenTokens, allTokens)
            /\ passes' = Append(passes, Pass(t, now, ans))
            /\ IF queue = <<>>
               THEN Put(t, [tasks[t] EXCEPT !.pc = "done",
                              !.hist = [i \in DOMAIN evaluated |-> Evaluation(evaluated[i])]])
               ELSE Put(t, BeginToken(tasks[t], Head(queue), Tail(queue)))
            /\ UNCHANGED notifications
    /\ UNCHANGED <<DRY_RUN, ENABLE_TELEGRAM, now, ticks, portfolio, snipeLog, txCount>>

\* The polling loop takes its next token, or ends (line 786); the real-time
\* handler returns (lines 1083-1095).
NextToken(t) ==
    /\ tasks[t].kind \in {"poll", "rt"} /\ tasks[t].pc = "next"
    /\ IF tasks[t].queue = <<>>
       THEN Put(t, Returned(tasks[t]))
       ELSE Put(t, BeginToken(tasks[t], Head(tasks[t].queue), Tail(tasks[t].queue)))
    /\ UNCHANGED <<DRY_RUN, ENABLE_TELEGRAM, now, ticks, previouslySeenTokens, passes,
                   portfolio, snipeLog, notifications, txCount>>

\* A first filter that does not look at the quote mint.
PassesRealTimeFiltersAnyQuote(poolInfo) ==
    /\ ~(poolInfo.address = "" \/ poolInfo.baseMint = "" \/ poolInfo.quoteMint = "")
    /\ poolInfo.address \notin EXCLUDED_TOKENS

\* passesRealTimeFilters (lines 997-1019); an absent field is "".
PassesRealTimeFilters(poolInfo) ==
    /\ ~(poolInfo.address = "" \/ poolInfo.baseMint = "" \/ poolInfo.quoteMint = "")
    /\ poolInfo.quoteMint = WSOL
    /\ poolInfo.address \notin EXCLUDED_TOKENS

\* An enhancement that carries the figures of the candidate over.
EnhanceKeepsFigures(poolInfo, nowSec) ==
    Token(poolInfo.address, NameAlpha, poolInfo.liquidity, poolInfo.mc,
          poolInfo.price, nowSec, poolInfo.v24hUSD, 0)

\* enhanceRealTimePoolInfo (lines 1021-1051): v24hUSD and v24hChangePercent
\* are not set (0 here).
EnhanceRealTimePoolInfo(poolInfo, nowSec) ==
    [Token(poolInfo.address, NameUnknownToken, 0, 0, SciZero, nowSec, 0, 0)
        EXCEPT !.symbol = NameUNKNOWN]

\* handleRealTimePool to its first await (lines 1053-1067).
StartRealTime(t, poolInfo) ==
    /\ tasks[t].kind = "idle"
    /\ LET task == [tasks[t] EXCEPT !.kind = "rt", !.att = 1]
           ok == PassesRealTimeFilters(poolInfo)
           noted == Note(task, Ev("rtfilter", poolInfo.address, ok, "", poolInfo))
       IN
       IF ok
       THEN Put(t, [noted EXCEPT !.pc = "enhanced",
                                 !.token = EnhanceRealTimePoolInfo(poolInfo, now)])
       ELSE Put(t, [noted EXCEPT !.pc = After(noted)])
    /\ UNCHANGED <<DRY_RUN, ENABLE_TELEGRAM, now, ticks, previouslySeenTokens, passes,
                   portfolio, snipeLog, notifications, txCount>>

\* handleRealTimePool from the enhanced info to the first await of
\* checkTokenSafety (lines 1068-1082).
RealTimeFilter(t) ==
    /\ tasks[t].kind = "rt" /\ tasks[t].pc = "enhanced"
    /\ LET ok == PassesSnipeFilters(tasks[t].token, now)
           noted == Note(tasks[t],
                        Evaluation([token |-> tasks[t].token, passed |-> ok, at |-> now]))
       IN
       IF ok THEN Put(t, [noted EXCEPT !.pc = "mint"])
       ELSE Put(t, [noted EXCEPT !.pc = After(noted)])
    /\ UNCHANGED <<DRY_RUN, ENABLE_TELEGRAM, now, ticks, previouslySeenTokens, passes,
                   portfolio, snipeLog, notifications, txCount>>

\* A caller that snipes whatever checkTokenSafety returned.
SnipeIfSafeAlways(isSafe) == TRUE

\* if (isSafe) of the polling loop (line 800) and if (!safetyCheck) return
\* of the real-time handler (line 1083).
SnipeIfSafe(isSafe) == isSafe

\* checkTokenSafety has returned (lines 799-805, 1082-1091): a caller that
\* goes on calls snipeToken, which runs to its first await, the balance
\* lookup of checkUSDTBalance (lines 454-467).
SafetyResult(task, isSafe) ==
    LET noted == Note(task, Ev("safety", task.token.address, isSafe, "", NoResp)) IN
    IF SnipeIfSafe(isSafe)
    THEN [Note(Note(noted, Ev("snipe", task.token.address, TRUE, "", NoResp)),
               Ev("balance", "", TRUE, "", NoResp))
            EXCEPT !.pc = "balance"]
    ELSE [noted EXCEPT !.pc = After(task)]

\* A checker that returns true once the honeypot check has passed.
NextCheckSkipsHolder(name, passed) ==
    IF ~passed THEN "fail"
    ELSE CASE name = "mint" -> "freeze"
           [] name = "freeze" -> "supply"
           [] name = "supply" -> "honeypot"
           [] OTHER -> "pass"

\* A checker that goes on to the next check after a failed one.
NextCheckGoesOn(name, passed) ==
    CASE name = "mint" -> "freeze"
      [] name = "freeze" -> "supply"
      [] name = "supply" -> "honeypot"
      [] name = "honeypot" -> "holder"
      [] OTHER -> IF passed THEN "pass" ELSE "fail"

\* The control flow of checkTokenSafety (lines 147-198): after a check, the
\* check to run next, or the result to return.  No sub-check throws (each
\* catches its own errors), so the catch of lines 194-197 is never entered.
NextCheck(name, passed) ==
    IF ~passed THEN "fail"
    ELSE CASE name = "mint" -> "freeze"
           [] name = "freeze" -> "supply"
           [] name = "supply" -> "honeypot"
           [] name = "honeypot" -> "holder"
           [] name = "holder" -> "pass"

\* One sub-check has returned r, having been answered resp.
AfterCheck(task, name, r, resp) ==
    LET noted == Note(task, Ev("check", name, r.passed, r.reason, resp))
        nxt == NextCheck(name, r.passed)
    IN  IF nxt = "fail" THEN SafetyResult(noted, FALSE)
        ELSE IF nxt = "pass" THEN SafetyResult(noted, TRUE)
        ELSE [noted EXCEPT !.pc = nxt]

AtCheck(t, pc) == tasks[t].kind \in {"poll", "rt"} /\ tasks[t].pc = pc

SafetyFrame ==
    UNCHANGED <<DRY_RUN, ENABLE_TELEGRAM, now, ticks, previouslySeenTokens, passes,
                portfolio, snipeLog, notifications, txCount>>

\* checkTokenSafety, step 1 (lines 152-157)
MintAuthorityChecked(t, acc) ==
    /\ AtCheck(t, "mint")
    /\ Put(t, AfterCheck(tasks[t], "mint", CheckMintAuthority(acc), acc))
    /\ SafetyFrame

\* checkTokenSafety, step 2 (lines 160-165)
FreezeAuthorityChecked(t, acc) ==
    /\ AtCheck(t, "freeze")
    /\ Put(t, AfterCheck(tasks[t], "freeze", CheckFreezeAuthority(acc), acc))
    /\ SafetyFrame

\* checkTokenSafety, step 3 (lines 168-173)
TokenSupplyChecked(t, acc) ==
    /\ AtCheck(t, "supply")
    /\ Put(t, AfterCheck(tasks[t], "supply", CheckTokenSupply(acc), acc))
    /\ SafetyFrame

\* checkTokenSafety, step 4, the buy quote (lines 176, 321-347): an unusable
\* buy quote ends the check, a usable one is followed by the sell request.
HoneypotBuyQuoted(t, buy) ==
    /\ AtCheck(t, "honeypot")
    /\ LET r == CheckHoneypot(buy, NoQuote("none", 0)) IN
       IF r.sellAsked
       THEN Put(t, [Note(tasks[t], Ev("sellquote", "", TRUE, "", buy))
                       EXCEPT !.pc = "honeypot_sell", !.quote = buy])
       ELSE Put(t, AfterCheck(tasks[t], "honeypot", r, buy))
    /\ SafetyFrame

\* checkTokenSafety, step 4, the sell quote (lines 349-410, 177-181)
HoneypotSellQuoted(t, sell) ==
    /\ AtCheck(t, "honeypot_sell")
    /\ Put(t, AfterCheck([tasks[t] EXCEPT !.quote = NoQuote("none", 0)],
                         "honeypot", CheckHoneypot(tasks[t].quote, sell), sell))
    /\ SafetyFrame

\* checkTokenSafety, step 5 (lines 184-192)
HolderDistributionChecked(t) ==
    /\ AtCheck(t, "holder")
    /\ Put(t, AfterCheck(tasks[t], "holder", CheckHolderDistribution, NoResp))
    /\ SafetyFrame

(***************************************************************************)
(* Execution engine: snipeToken (part_000 lines 454-562) and what it calls.*)
(***************************************************************************)
\* An answer of getParsedTokenAccountsByOwner: the call throws, or it
\* returns the wallet's USDT accounts (none, or one holding amount units).
Balance(kind, amount) == [kind |-> kind, amount |-> amount]

Balances ==
    {Balance("throw", 0), Balance("none", 0),
     Balance("account", 999999), Balance("account", 1000000)}

\* A balance check that lets the attempt go on when the lookup throws.
CheckUSDTBalanceFailOpen(bal) ==
    IF bal.kind = "throw" THEN [hasBalance |-> TRUE, error |-> "error"]
    ELSE IF bal.kind = "none"
         THEN [hasBalance |-> FALSE, error |-> "No USDT account found"]
    ELSE [hasBalance |-> bal.amount >= SNIPE_AMOUNT_USDT * 1000000, error |-> ""]

\* checkUSDTBalance (lines 434-452): balance = amount / 1000000 and
\* hasBalance = balance >= SNIPE_AMOUNT_USDT.
CheckUSDTBalance(bal) ==
    IF bal.kind = "throw" THEN [hasBalance |-> FALSE, error |-> "error"]
    ELSE IF bal.kind = "none"
         THEN [hasBalance |-> FALSE, error |-> "No USDT account found"]
    ELSE [hasBalance |-> bal.amount >= SNIPE_AMOUNT_USDT * 1000000, error |-> ""]

\* The answers to the quote request of snipeToken.  An absent priceImpactPct
\* reads as 0 (priceImpactPct || 0), a non-numeric one as NaN.
SnipeQuotes ==
    {NoQuote("throw", 0), NoQuote("http", 500),
     Quote(7000, 2, 100), Quote(7000, 20, 500), Quote(7000, 21, 100),
     Quote(7000, 2, 501), Quote(7000, NaN, 100)}

\* getJupiterQuote (lines 564-600); slippage = slippageBps / 100 is kept in
\* basis points.
GetJupiterQuote(ans) ==
    IF ans.kind \in {"throw", "http"}
    THEN [success |-> FALSE, outAmount |-> 0, priceImpact |-> NaN, slippageBps |-> NaN]
    ELSE [success |-> TRUE, outAmount |-> ans.outAmount,
          priceImpact |-> ans.priceImpactPct, slippageBps |-> ans.slippageBps]

\* A risk check that looks at the price impact only.
QuoteRejectionImpactOnly(quote) ==
    IF Gt(quote.priceImpact, MaxPriceImpact) THEN "price_impact" ELSE ""

\* The risk thresholds of snipeToken (lines 495-503): the exit taken, or ""
\* when the quote is accepted.  slippage > 5 is slippageBps > 5 * 100.
QuoteRejection(quote) ==
    IF Gt(quote.priceImpact, MaxPriceImpact) THEN "price_impact"
    ELSE IF Gt(quote.slippageBps, MaxSlippage * 100) THEN "slippage"
    ELSE ""

\* An entry writer that writes nothing.
AddTokenToPortfolioNothing(pf, token, quote, sig, decimals, by) == pf

\* addTokenToPortfolio (lines 835-865) with loadPortfolio and savePortfolio
\* (815-833), which run without an await between them.
AddTokenToPortfolio(pf, token, quote, sig, decimals, by) ==
    [tokens |-> Append(pf.tokens,
        [mint |-> token.address, symbol |-> token.symbol, name |-> token.name,
         amountUsdt |-> SNIPE_AMOUNT_USDT,
         tokensReceived |-> [raw |-> quote.outAmount, decimals |-> decimals],
         priceAtSnipe |-> token.price, liquidityAtSnipe |-> token.liquidity,
         marketCapAtSnipe |-> token.mc, transactionSignature |-> sig,
         currentPrice |-> token.price, profitLoss |-> 0, by |-> by]),
     totalInvested |-> pf.totalInvested + SNIPE_AMOUNT_USDT]

\* The record logSnipeToFile builds (lines 869-887).
SnipeRecord(token, quote, sig, decimals, by) ==
    [mint |-> token.address, price |-> token.price,
     liquidity |-> token.liquidity, marketCap |-> token.mc,
     amountUsdt |-> SNIPE_AMOUNT_USDT,
     tokensReceived |-> [raw |-> quote.outAmount, decimals |-> decimals],
     priceImpact |-> quote.priceImpact, slippageBps |-> quote.slippageBps,
     transaction |-> sig, by |-> by]

\* A write that starts from an empty list instead of the stored one.
LogSnipeToFileFresh(log, token, quote, sig, decimals, by) ==
    <<SnipeRecord(token, quote, sig, decimals, by)>>

\* logSnipeToFile (lines 867-897): reads the stored list, pushes the record
\* and writes the list back, in one synchronous segment.
LogSnipeToFile(log, token, quote, sig, decimals, by) ==
    Append(log, SnipeRecord(token, quote, sig, decimals, by))

\* A dry run that appends its simulated record to the snipe log.
DryRunLogAppends(log, token, quote, sig, by) ==
    LogSnipeToFile(log, token, quote, sig, 9, by)

\* What logSuccessfulSnipe (lines 684-710) does to the snipe log: nothing;
\* the record it builds is printed to the console only.
DryRunLog(log, token, quote, sig, by) == log

AtSnipe(t, pc) == tasks[t].kind \in {"poll", "rt"} /\ tasks[t].pc = pc
Me(t) == <<t, tasks[t].att>>
Call(task, what) == Note(task, Ev(what, "", TRUE, "", NoResp))

\* The balance lookup of a task, the last event of its history, was
\* answered bal.
Answered(task, bal) ==
    [task EXCEPT !.hist = [i \in DOMAIN task.hist |->
        IF i = Len(task.hist) THEN [task.hist[i] EXCEPT !.resp = bal]
        ELSE task.hist[i]]]

\* snipeToken after the balance lookup (lines 467-482)
BalanceChecked(t, bal) ==
    /\ AtSnipe(t, "balance")
    /\ IF CheckUSDTBalance(bal).hasBalance
       THEN Put(t, [Call(Answered(tasks[t], bal), "quote") EXCEPT !.pc = "quote"])
       ELSE Put(t, Exit(Answered(tasks[t], bal), "insufficient_balance", FALSE))
    /\ UNCHANGED <<DRY_RUN, ENABLE_TELEGRAM, now, ticks, previouslySeenTokens, passes,
                   portfolio, snipeLog, notifications, txCount>>

\* snipeToken after the quote request (lines 482-506)
Quoted(t, ans) ==
    /\ AtSnipe(t, "quote")
    /\ LET quote == GetJupiterQuote(ans)
           task == [tasks[t] EXCEPT !.quote = ans]
       IN
       IF ~quote.success THEN Put(t, Exit(task, "quote_failed", FALSE))
       ELSE IF QuoteRejection(quote) # ""
            THEN Put(t, Exit(task, QuoteRejection(quote), FALSE))
       ELSE Put(t, [Call(task, "build") EXCEPT !.pc = "build"])
    /\ UNCHANGED <<DRY_RUN, ENABLE_TELEGRAM, now, ticks, previouslySeenTokens, passes,
                   portfolio, snipeLog, notifications, txCount>>

\* snipeToken after the swap-build request (lines 506-526), the dry run
\* (514-523), and executeSwap to its first await (636-665): the transaction
\* deserializes as a versioned one (signed and sent), as a legacy one (the
\* blockhash is fetched first) or not at all.
SwapBuilt(t, built, encoding) ==
    /\ AtSnipe(t, "build")
    /\ LET task == tasks[t]
           quote == GetJupiterQuote(task.quote)
       IN
       IF built # "ok"
       THEN /\ Put(t, Exit(task, "build_failed", FALSE))
            /\ UNCHANGED snipeLog
       ELSE IF DRY_RUN
       THEN /\ Put(t, Exit(Note([task EXCEPT !.sig = DRY_RUN_SIMULATION],
                                Ev("logSuccessfulSnipe", "", TRUE, "", NoResp)),
                           "dry_run", TRUE))
            /\ snipeLog' = DryRunLog(snipeLog, task.token, quote,
                                     DRY_RUN_SIMULATION, Me(t))
       ELSE /\ UNCHANGED snipeLog
            /\ LET called == Call(task, "executeSwap") IN
               IF encoding = "versioned"
               THEN Put(t, [Call(Call(called, "sign"), "send") EXCEPT !.pc = "send"])
               ELSE IF encoding = "legacy"
               THEN Put(t, [called EXCEPT !.pc = "blockhash"])
               ELSE Put(t, Exit(called, "deserialize_failed", FALSE))
    /\ UNCHANGED <<DRY_RUN, ENABLE_TELEGRAM, now, ticks, previouslySeenTokens, passes,
                   portfolio, notifications, txCount>>

\* executeSwap, legacy transaction, after getLatestBlockhash (lines 653-665);
\* a throw is caught with the deserialization errors (659-661).
BlockhashFetched(t, ok) ==
    /\ AtSnipe(t, "blockhash")
    /\ IF ok
       THEN Put(t, [Call(Call(tasks[t], "sign"), "send") EXCEPT !.pc = "send"])
       ELSE Put(t, Exit(tasks[t], "deserialize_failed", FALSE))
    /\ UNCHANGED <<DRY_RUN, ENABLE_TELEGRAM, now, ticks, previouslySeenTokens, passes,
                   portfolio, snipeLog, notifications, txCount>>

\* executeSwap after sendRawTransaction (lines 665-668): the network took
\* the transaction and gave its signature, or the call threw (679-681).
TransactionSent(t, accepted) ==
    /\ AtSnipe(t, "send")
    /\ IF accepted
       THEN /\ txCount' = txCount + 1
            /\ Put(t, [Call(tasks[t], "confirm")
                         EXCEPT !.pc = "confirm", !.sig = TxSig(txCount + 1)])
       ELSE /\ Put(t, Exit(tasks[t], "swap_failed", FALSE))
            /\ UNCHANGED txCount
    /\ UNCHANGED <<DRY_RUN, ENABLE_TELEGRAM, now, ticks, previouslySeenTokens, passes,
                   portfolio, snipeLog, notifications>>

\* executeSwap after confirmTransaction (lines 668-681), and snipeToken to
\* the lookup of the token's decimals (526-536).
TransactionConfirmed(t, result) ==
    /\ AtSnipe(t, "confirm")
    /\ IF result = "ok"
       THEN Put(t, [tasks[t] EXCEPT !.pc = "decimals"])
       ELSE IF result = "err"
       THEN Put(t, Exit(tasks[t], "transaction_failed", FALSE))
       ELSE Put(t, Exit(tasks[t], "swap_failed", FALSE))
    /\ UNCHANGED <<DRY_RUN, ENABLE_TELEGRAM, now, ticks, previouslySeenTokens, passes,
                   portfolio, snipeLog, notifications, txCount>>

\* snipeToken from the decimals lookup to the await of sendTelegramMessage
\* (lines 536-557): the portfolio, then the snipe log, then the notifier.
\* decimals is the looked-up value, or the default 9 when the lookup failed.
SnipeRecorded(t, decimals) ==
    /\ AtSnipe(t, "decimals")
    /\ LET task == tasks[t]
           quote == GetJupiterQuote(task.quote)
       IN
       /\ portfolio' = AddTokenToPortfolio(portfolio, task.token, quote,
                                           task.sig, decimals, Me(t))
       /\ snipeLog' = LogSnipeToFile(snipeLog, task.token, quote,
                                     task.sig, decimals, Me(t))
       /\ notifications' = Append(notifications,
              [kind |-> "snipe", mint |-> task.token.address, sig |-> task.sig,
               by |-> Me(t), posted |-> ENABLE_TELEGRAM])
       /\ Put(t, [Call(Call(Call(task, "portfolio"), "log"), "notify")
                    EXCEPT !.pc = "notify"])
    /\ UNCHANGED <<DRY_RUN, ENABLE_TELEGRAM, now, ticks, previouslySeenTokens, passes, txCount>>

\* sendTelegramMessage has returned (lines 917-943, 557): its own failures
\* are logged only.
Notified(t) ==
    /\ AtSnipe(t, "notify")
    /\ Put(t, Exit(tasks[t], "recorded", TRUE))
    /\ UNCHANGED <<DRY_RUN, ENABLE_TELEGRAM, now, ticks, previouslySeenTokens, passes,
                   portfolio, snipeLog, notifications, txCount>>

\* Time passes.
Tick ==
    /\ ticks < MaxTicks
    /\ ticks' = ticks + 1
    /\ now' = now + TickSec
    /\ UNCHANGED <<DRY_RUN, ENABLE_TELEGRAM, previouslySeenTokens, passes, tasks,
                   portfolio, snipeLog, notifications, txCount>>
    /\ UNCHANGED <<monVars, accVars, procVars>>

(***************************************************************************)
(* addTokenToPortfolio in another bot process (lines 815-865).  Inside one *)
(* process loadPortfolio and savePortfolio run without an await between    *)
(* them; between two processes the operating system orders the read of one *)
(* and the write of the other freely, and the file is not locked.          *)
(***************************************************************************)
\* loadPortfolio (lines 815-825) of writer w, which has sniped the token.
WriterLoaded(w, token) ==
    /\ writers[w].pc = "idle"
    /\ writers' = [writers EXCEPT ![w] =
                      [pc |-> "loaded", loaded |-> portfolio, token |-> token]]
    /\ UNCHANGED <<env, exited, viewer>>
    /\ UNCHANGED <<monVars, botVars, accVars>>

\* The entry is pushed onto what was loaded and savePortfolio writes the
\* file (lines 836-858).
WriterSaved(w) ==
    /\ writers[w].pc = "loaded"
    /\ portfolio' = AddTokenToPortfolio(writers[w].loaded, writers[w].token,
                        GetJupiterQuote(Quote(7000, 2, 100)), TxSig(w), 9,
                        <<w, 1>>)
    /\ writers' = [writers EXCEPT ![w].pc = "saved"]
    /\ UNCHANGED <<env, exited, viewer>>
    /\ UNCHANGED <<DRY_RUN, ENABLE_TELEGRAM, now, ticks, previouslySeenTokens, passes,
                   tasks, snipeLog, notifications, txCount>>
    /\ UNCHANGED <<monVars, accVars>>

(***************************************************************************)
(* The portfolio viewers: viewPortfolio of view_portfolio.js               *)
(* (src/unnamed/part_001 130-197) and handlePortfolio of telegram_bot.js   *)
(* (164-244).  Each runs in a process of its own on the portfolio file.    *)
(* A fetched price is <<>> for null and <<p>> for the number p.            *)
(***************************************************************************)
Viewers == {"viewPortfolio", "handlePortfolio"}

\* What getTokenPrice returns (part_001 33-52, telegram_bot.js 53-72).
FetchedPrices == {<<>>, <<SciZero>>, <<Sci(1, -2)>>, <<Sci(2, -2)>>}

\* The price a viewer keeps: data.data?.value || null in both, and in
\* handlePortfolio 0 for a null, a non-positive or an over-large one
\* (telegram_bot.js 175-178).
KeptPrice(which, fetched) ==
    IF fetched = <<>> \/ fetched = <<SciZero>>
    THEN IF which = "handlePortfolio" THEN <<SciZero>> ELSE <<>>
    ELSE fetched

ViewPut(v) ==
    /\ viewer' = v
    /\ UNCHANGED <<env, exited, writers>>
    /\ UNCHANGED <<monVars, botVars, accVars>>

\* The viewer loads the file; an empty portfolio is reported at once
\* (part_001 133-139, telegram_bot.js 165-170).
ViewLoaded(which) ==
    /\ viewer.pc = "idle"
    /\ IF portfolio.tokens = <<>>
       THEN ViewPut([viewer EXCEPT !.pc = "done", !.which = which,
                                   !.loaded = portfolio, !.sent = "empty"])
       ELSE ViewPut([viewer EXCEPT !.pc = "pricing", !.which = which,
                                   !.loaded = portfolio])

\* One price has arrived: a copy of the entry with the price is kept in
\* memory (part_001 146-156, telegram_bot.js 174-186).
ViewPriced(fetched) ==
    /\ viewer.pc = "pricing"
    /\ Len(viewer.updatedTokens) < Len(viewer.loaded.tokens)
    /\ LET token == viewer.loaded.tokens[Len(viewer.updatedTokens) + 1] IN
       ViewPut([viewer EXCEPT !.updatedTokens =
                    Append(@, [token |-> token,
                               currentPrice |-> KeptPrice(viewer.which, fetched)])])

\* The summary is computed and shown.  viewPortfolio reads amountUsdc, a
\* field the bot's entries do not have, and throws at its toFixed
\* (part_001 175); handlePortfolio reads amountUsdt and sends its message.
ViewShown ==
    /\ viewer.pc = "pricing"
    /\ Len(viewer.updatedTokens) = Len(viewer.loaded.tokens)
    /\ IF viewer.which = "viewPortfolio"
       THEN ViewPut([viewer EXCEPT !.pc = "failed"])
       ELSE ViewPut([viewer EXCEPT !.pc = "done", !.sent = "overview"])

(***************************************************************************)
(* The integration test (test_enhanced_bot.js): the same handler over      *)
(* stand-ins of passesSnipeFilters, checkTokenSafety and snipeToken that   *)
(* print and return true.  It reads no credential and writes no file.      *)
(***************************************************************************)
\* passesRealTimeFilters of the test (lines 26-40): no excluded list.
TestPassesRealTimeFilters(poolInfo) ==
    /\ ~(poolInfo.address = "" \/ poolInfo.baseMint = "" \/ poolInfo.quoteMint = "")
    /\ poolInfo.quoteMint = WSOL

\* The stand-in of passesSnipeFilters (lines 7-10).
TestPassesSnipeFilters(token) == TRUE

\* The stand-in of checkTokenSafety (lines 12-15).
TestCheckTokenSafety(token) == TRUE

TestPut(t, task) ==
    /\ tasks' = [tasks EXCEPT ![t] = task]
    /\ UNCHANGED <<DRY_RUN, ENABLE_TELEGRAM, now, ticks, previouslySeenTokens, passes,
                   portfolio, snipeLog, notifications, txCount>>
    /\ UNCHANGED <<monVars, accVars, procVars>>

\* handleRealTimePool of the test to its first await (lines 69-83).
TestStartRealTime(t, poolInfo) ==
    /\ tasks[t].kind = "idle"
    /\ LET task == [tasks[t] EXCEPT !.kind = "test", !.att = 1]
           ok == TestPassesRealTimeFilters(poolInfo)
           noted == Note(task, Ev("rtfilter", poolInfo.address, ok, "", poolInfo))
       IN
       IF ok
       THEN TestPut(t, [noted EXCEPT !.pc = "enhanced",
                                     !.token = EnhanceRealTimePoolInfo(poolInfo, now)])
       ELSE TestPut(t, [noted EXCEPT !.pc = "return"])

\* From the enhanced info to the await of checkTokenSafety (lines 84-98).
TestFiltered(t) ==
    /\ tasks[t].kind = "test" /\ tasks[t].pc = "enhanced"
    /\ LET ok == TestPassesSnipeFilters(tasks[t].token)
           noted == Note(tasks[t],
                        Ev("filter", tasks[t].token.address, ok, "", NoResp))
       IN
       IF ok THEN TestPut(t, [noted EXCEPT !.pc = "safety"])
       ELSE TestPut(t, [noted EXCEPT !.pc = "return"])

\* From the result of checkTokenSafety to the await of snipeToken, whose
\* stand-in prints and returns (lines 98-108).
TestSafetyChecked(t) ==
    /\ tasks[t].kind = "test" /\ tasks[t].pc = "safety"
    /\ LET isSafe == TestCheckTokenSafety(tasks[t].token)
           noted == Note(tasks[t],
                        Ev("safety", tasks[t].token.address, isSafe, "", NoResp))
       IN
       IF isSafe
       THEN TestPut(t, [Note(noted, Ev("snipe", tasks[t].token.address, TRUE,
                                       "", NoResp))
                           EXCEPT !.pc = "return"])
       ELSE TestPut(t, [noted EXCEPT !.pc = "return"])

\* The handler returns (lines 77, 108-112).
TestReturned(t) ==
    /\ tasks[t].kind = "test" /\ tasks[t].pc = "return"
    /\ TestPut(t, Returned(tasks[t]))

\* The steps of task t, given the answers the outside world may give.
TaskNext(t, polls, pools, accs, buys, sells, bals, quotes, decs) ==
    \/ StartPoll(t)
    \/ \E ans \in polls : PollFetched(t, ans)
    \/ NextToken(t)
    \/ \E poolInfo \in pools : StartRealTime(t, poolInfo)
    \/ RealTimeFilter(t)
    \/ \E acc \in accs :
          \/ MintAuthorityChecked(t, acc)
          \/ FreezeAuthorityChecked(t, acc)
          \/ TokenSupplyChecked(t, acc)
    \/ \E buy \in buys : HoneypotBuyQuoted(t, buy)
    \/ \E sell \in sells : HoneypotSellQuoted(t, sell)
    \/ HolderDistributionChecked(t)
    \/ \E bal \in bals : BalanceChecked(t, bal)
    \/ \E ans \in quotes : Quoted(t, ans)
    \/ \E built \in {"ok", "http", "throw"},
          encoding \in {"versioned", "legacy", "none"} :
          SwapBuilt(t, built, encoding)
    \/ \E ok \in BOOLEAN : BlockhashFetched(t, ok)
    \/ \E accepted \in BOOLEAN : TransactionSent(t, accepted)
    \/ \E result \in {"ok", "err", "throw"} : TransactionConfirmed(t, result)
    \/ \E decimals \in decs : SnipeRecorded(t, decimals)
    \/ Notified(t)

\* The bot with one pass or handler call at a time, answered in every way
\* listed above.
OneTaskNext ==
    \/ Tick
    \/ TaskNext(1, PollAnswers, PoolInfos, AccountInfos, HoneypotBuys,
                HoneypotSells, Balances, SnipeQuotes, {6, 9})

SpecOneTask == Init /\ [][OneTaskNext]_vars

\* Fewer answers for passes and handler calls in flight together: of every
\* request, the answer the bot goes on with and one or two it stops at.
FewPollAnswers ==
    {PollAnswer("throw", <<>>, <<>>),
     PollAnswer("http", <<>>, <<>>),
     PollAnswer("ok", <<TokenA>>, <<TokenB, TokenBig>>),
     PollAnswer("ok", <<>>, <<TokenA>>)}
FewAccountInfos == {NoInfo("throw"), Info("null", "null", Sci(1, 15), 6)}
FewHoneypotBuys == {NoQuote("http", 400), Quote(5000, 1, 100)}
FewHoneypotSells == {NoQuote("throw", 0), Quote(990000, 1, 100)}
FewBalances == {Balance("none", 0), Balance("account", 1000000)}
FewSnipeQuotes ==
    {NoQuote("http", 500), Quote(7000, 2, 100), Quote(7000, 21, 100),
     Quote(7000, 2, 501)}

\* The bot: polling passes and real-time handler calls in flight together.
BotNext ==
    \/ Tick
    \/ \E t \in TaskIds :
         TaskNext(t, FewPollAnswers, PoolInfos, FewAccountInfos, FewHoneypotBuys,
                  FewHoneypotSells, FewBalances, FewSnipeQuotes, {9})

Spec == Init /\ [][BotNext]_vars

(***************************************************************************)
(* The filter stage alone: one polling pass is answered a list of one      *)
(* token, drawn from every combination of a passing and a failing value of *)
(* each field, and from the values on the thresholds.                      *)
(***************************************************************************)
NameSafeMoon == <<"S","a","f","e","M","o","o","n">>

TokenCombinations ==
    {Token(address, name, liquidity, mc, price, lastTrade, v24hUSD, change) :
        address \in {"TokenA", WSOL},
        name \in {NameAlpha, NameSafeMoon},
        liquidity \in {5000, 2999},
        mc \in {50000, 29999, 10000001, 200000},
        price \in {Sci(1, -2), Sci(9, -7), Sci(2, 3)},
        lastTrade \in {T0, T0 - 3601},
        v24hUSD \in {10000, 4999},
        change \in {0, -1001}}

TokensOnThresholds ==
    {[TokenA EXCEPT !.liquidity = MIN_LIQUIDITY],
     [TokenA EXCEPT !.liquidity = 0],
     [TokenA EXCEPT !.mc = MIN_MARKET_CAP],
     [TokenA EXCEPT !.mc = MAX_MARKET_CAP, !.v24hUSD = 500000],
     [TokenA EXCEPT !.mc = 0],
     [TokenA EXCEPT !.price = MinPrice],
     [TokenA EXCEPT !.price = MaxPrice],
     [TokenA EXCEPT !.price = SciZero],
     [TokenA EXCEPT !.lastTradeUnixTime = T0 - 3600],
     [TokenA EXCEPT !.v24hUSD = MIN_VOLUME_24H],
     [TokenA EXCEPT !.v24hUSD = 0],
     [TokenA EXCEPT !.v24hUSD = 10000, !.mc = 200001],
     [TokenA EXCEPT !.v24hChangePercent = 1000],
     [TokenA EXCEPT !.v24hChangePercent = 1001],
     [TokenA EXCEPT !.symbol = NameSafeMoon],
     [TokenA EXCEPT !.name = NameSafeMoon]}

FilterTokens == TokenCombinations \cup TokensOnThresholds

FilterNext ==
    \/ Tick
    \/ StartPoll(1)
    \/ \E token \in FilterTokens : PollFetched(1, PollAnswer("ok", <<>>, <<token>>))

SpecFilter == Init /\ [][FilterNext]_vars

\* The account-change mode alone, with the clock.
AccountChangeNext ==
    \/ Tick
    \/ SetupAccountChangeMonitoring
    \/ \E sub \in 1..MaxSetups, poolId \in PoolIds, data \in AccountDatas :
          AccountChange(sub, poolId, data)

SpecAccountChange == Init /\ [][AccountChangeNext]_vars

\* The process from its start: the subscriptions of the monitor and one
\* polling pass or handler call at a time.
ProcessNext ==
    \/ Tick
    \/ StartMonitoring
    \/ StopMonitoring
    \/ SetupAccountChangeMonitoring
    \/ TaskNext(1, FewPollAnswers, PoolInfos, FewAccountInfos, FewHoneypotBuys,
                FewHoneypotSells, FewBalances, FewSnipeQuotes, {9})

SpecProcess == Init /\ [][ProcessNext]_vars

\* The real-time handler of the bot (task 1) and the one of the integration
\* test (task 2), given candidates with and without each field.
RealTimePools ==
    {PoolA,
     PoolInfo("", "TokenA", WSOL, 1, 0, 0, SciZero, 0),
     PoolInfo("TokenA", "", WSOL, 1, 0, 0, SciZero, 0),
     PoolInfo("TokenA", "TokenA", "", 1, 0, 0, SciZero, 0),
     PoolInfo("TokenA", "TokenA", USDC, 1, 0, 0, SciZero, 0),
     PoolInfo(WSOL, WSOL, WSOL, 2, 0, 0, SciZero, 0)}

RealTimeNext ==
    \/ Tick
    \/ TaskNext(1, FewPollAnswers, RealTimePools, FewAccountInfos,
                FewHoneypotBuys, FewHoneypotSells, FewBalances, FewSnipeQuotes,
                {9})
    \/ \E poolInfo \in RealTimePools : TestStartRealTime(2, poolInfo)
    \/ TestFiltered(2)
    \/ TestSafetyChecked(2)
    \/ TestReturned(2)

SpecRealTime == Init /\ [][RealTimeNext]_vars

\* One polling pass or handler call of the bot, and a viewer.
ViewerNext ==
    \/ Tick
    \/ TaskNext(1, FewPollAnswers, PoolInfos, FewAccountInfos, FewHoneypotBuys,
                FewHoneypotSells, FewBalances, FewSnipeQuotes, {9})
    \/ \E which \in Viewers : ViewLoaded(which)
    \/ \E fetched \in FetchedPrices : ViewPriced(fetched)
    \/ ViewShown

SpecViewer == Init /\ [][ViewerNext]_vars

\* One polling pass or handler call of the bot, and two other bot processes
\* writing the same portfolio file.
WritersNext ==
    \/ Tick
    \/ TaskNext(1, FewPollAnswers, PoolInfos, FewAccountInfos, FewHoneypotBuys,
                FewHoneypotSells, FewBalances, FewSnipeQuotes, {9})
    \/ \E w \in OtherWriters, token \in {TokenA, TokenB} : WriterLoaded(w, token)
    \/ \E w \in OtherWriters : WriterSaved(w)

SpecWriters == Init /\ [][WritersNext]_vars

(***************************************************************************)
(* Two polling passes whose lists share an address: TokenBig, over the     *)
(* market-cap ceiling, and TokenLate, the same address with figures inside *)
(* every threshold.                                                        *)
(***************************************************************************)
TokenLate == Token("TokenC", NameAlpha, 5000, 50000, Sci(1, -2), T0, 10000, 0)

LatePollAnswers ==
    {PollAnswer("http", <<>>, <<>>),
     PollAnswer("ok", <<TokenA>>, <<TokenBig>>),
     PollAnswer("ok", <<>>, <<TokenLate>>),
     PollAnswer("ok", <<>>, <<TokenLate, TokenA>>)}

PassesNext ==
    \/ Tick
    \/ \E t \in TaskIds :
         TaskNext(t, LatePollAnswers, {PoolA}, FewAccountInfos, FewHoneypotBuys,
                  FewHoneypotSells, FewBalances, FewSnipeQuotes, {9})

SpecPasses == Init /\ [][PassesNext]_vars

(***************************************************************************)
(* One polling pass answered more new tokens than it processes: two new    *)
(* listings and three token-list entries, of which TokenBig fails the      *)
(* filter stage.                                                           *)
(***************************************************************************)
TokenD == Token("TokenD", NameBeta, 8000, 90000, Sci(5, -4), T0, 20000, 10)
TokenE == Token("TokenE", NameAlpha, 5000, 50000, Sci(1, -2), T0, 10000, 0)

LongPollAnswers ==
    {PollAnswer("throw", <<>>, <<>>),
     PollAnswer("ok", <<>>, <<TokenB>>),
     PollAnswer("ok", <<TokenA, TokenB>>, <<TokenBig, TokenD, TokenE>>)}

OnePassNext ==
    \/ Tick
    \/ TaskNext(1, LongPollAnswers, {PoolA}, FewAccountInfos, FewHoneypotBuys,
                FewHoneypotSells, FewBalances, FewSnipeQuotes, {9})

SpecOnePass == Init /\ [][OnePassNext]_vars

(***************************************************************************)
(* The bot started with both files absent, or with both files as an        *)
(* earlier run left them: one portfolio entry and two snipe-log records.   *)
(***************************************************************************)
Earlier == <<0, 0>>     \* the writer of what the files held at the start

StoredPortfolio ==
    AddTokenToPortfolio(EmptyPortfolio, TokenB, GetJupiterQuote(Quote(7000, 2, 100)),
                        TxSig(0), 9, Earlier)

StoredLog ==
    LogSnipeToFile(
        LogSnipeToFile(<<>>, TokenB, GetJupiterQuote(Quote(7000, 2, 100)),
                       TxSig(0), 9, Earlier),
        TokenBig, GetJupiterQuote(Quote(7000, 2, 100)), TxSig(0), 6, Earlier)

StoredInit ==
    /\ MonitorInit /\ AccountInit /\ ProcessInit /\ ViewerInit /\ WritersInit
    /\ DRY_RUN \in BOOLEAN
    /\ ENABLE_TELEGRAM \in BOOLEAN
    /\ now = T0
    /\ ticks = 0
    /\ previouslySeenTokens = {}
    /\ passes = <<>>
    /\ tasks = [t \in TaskIds |-> IdleTask]
    /\ \/ portfolio = EmptyPortfolio /\ snipeLog = <<>>
       \/ portfolio = StoredPortfolio /\ snipeLog = StoredLog
    /\ notifications = <<>>
    /\ txCount = 0

SpecStored == StoredInit /\ [][BotNext]_vars

(***************************************************************************)
(* Reading a task's history.                                               *)
(***************************************************************************)
Hist(t) == tasks[t].hist
Events(t, ev) == SelectSeq(Hist(t), LAMBDA e : e.ev = ev)
HasEv(t, ev) == \E i \in DOMAIN Hist(t) : Hist(t)[i].ev = ev
CheckOrder == <<"mint", "freeze", "supply", "honeypot", "holder">>
LastEv(t) == Hist(t)[Len(Hist(t))]
ExitedAs(t, what) ==
    Hist(t) # <<>> /\ LastEv(t).ev = "exit" /\ LastEv(t).what = what
Once(t, ev) == Len(Events(t, ev)) = 1
Place(t, ev) == CHOOSE i \in DOMAIN Hist(t) : Hist(t)[i].ev = ev
\* What the attempt task t is at has written: portfolio entries, snipe-log
\* records, snipe notifications.
Mine(seq, t) == Len(SelectSeq(seq, LAMBDA r : r.by = Me(t)))
Written(t) ==
    <<Mine(portfolio.tokens, t), Mine(snipeLog, t),
      Mine(SelectSeq(notifications, LAMBDA n : n.kind = "snipe"), t)>>

(***************************************************************************)
(* C1: over every sequence of log events delivered to the log callback,    *)
(* onNewPool is invoked at most once per distinct transaction signature.   *)
(***************************************************************************)
C1_AtMostOnePerSignature == \A sig \in Sigs : EmitCount(sig) <= 1

\* A signature delivered twice, looked up and emitted once.
C1_Witness ==
    \E sig \in Sigs : deliveries[sig] >= 2 /\ EmitCount(sig) = 1 /\ inflight[sig] = 0

(***************************************************************************)
(* C2: on the polling path and on the real-time path, snipeToken is        *)
(* invoked for a candidate only after passesSnipeFilters returned true for *)
(* it and then checkTokenSafety returned true for it, in that order.       *)
(***************************************************************************)
C2_SnipeOnlyAfterFilterAndSafety ==
    \A t \in TaskIds : \A i \in DOMAIN Hist(t) :
        Hist(t)[i].ev = "snipe" =>
            \E j, k \in DOMAIN Hist(t) :
                /\ j < k /\ k < i
                /\ Hist(t)[j].ev = "filter" /\ Hist(t)[j].ok
                /\ Hist(t)[j].what = Hist(t)[i].what
                /\ Hist(t)[k].ev = "safety" /\ Hist(t)[k].ok
                /\ Hist(t)[k].what = Hist(t)[i].what

\* Two passes in flight: one has called snipeToken for a token, the other
\* has had checkTokenSafety return false for a token and gone on.
C2_Witness ==
    \E t, u \in TaskIds :
        /\ t # u
        /\ HasEv(t, "snipe") /\ tasks[t].pc = "quote"
        /\ tasks[u].pc = "next" /\ HasEv(u, "safety") /\ ~HasEv(u, "snipe")

(***************************************************************************)
(* C3: checkTokenSafety evaluates its checks in the fixed order mint       *)
(* authority, freeze authority, supply, honeypot, holder distribution and  *)
(* evaluates no check after the first that fails; a mint whose mint        *)
(* authority is not null fails the first check and no other check is run.  *)
(***************************************************************************)
C3_FixedOrderShortCircuit ==
    \A t \in TaskIds :
        LET checks == Events(t, "check") IN
        /\ Len(checks) <= Len(CheckOrder)
        /\ \A i \in DOMAIN checks :
              /\ checks[i].what = CheckOrder[i]
              /\ i < Len(checks) => checks[i].ok
              /\ (checks[i].what = "mint" /\ checks[i].resp.kind = "parsed"
                    /\ checks[i].resp.mintAuthority # "null")
                 => ~checks[i].ok /\ Len(checks) = 1
        /\ (checks # <<>> /\ ~checks[Len(checks)].ok)
              => tasks[t].pc \notin {"freeze", "supply", "honeypot",
                                     "honeypot_sell", "holder"}

\* A mint with a kept mint authority: one check evaluated, the checker has
\* returned false.
C3_Witness ==
    \E t \in TaskIds :
        /\ Len(Events(t, "check")) = 1
        /\ Events(t, "check")[1].resp.kind = "parsed"
        /\ Events(t, "check")[1].resp.mintAuthority = "Auth1"
        /\ HasEv(t, "safety") /\ tasks[t].pc = "next"

(***************************************************************************)
(* C4: a transport error (a thrown exception or a missing account) during  *)
(* a safety sub-check makes that sub-check return passed = false and       *)
(* checkTokenSafety return false; no transport error leads to a pass.      *)
(***************************************************************************)
TransportError(e) ==
    \/ e.what \in {"mint", "freeze", "supply"} /\ e.resp.kind \in {"throw", "notfound"}
    \/ e.what = "honeypot" /\ e.resp.kind \in {"throw", "http"}

C4_TransportErrorFailsClosed ==
    \A t \in TaskIds : \A i \in DOMAIN Hist(t) :
        (Hist(t)[i].ev = "check" /\ TransportError(Hist(t)[i])) =>
            /\ ~Hist(t)[i].ok
            /\ i + 1 \in DOMAIN Hist(t)
            /\ Hist(t)[i + 1].ev = "safety" /\ ~Hist(t)[i + 1].ok
            /\ ~HasEv(t, "snipe")

\* The supply lookup threw after the two authority checks had passed.
C4_Witness ==
    \E t \in TaskIds : \E i \in DOMAIN Hist(t) :
        /\ Hist(t)[i].ev = "check" /\ Hist(t)[i].what = "supply"
        /\ Hist(t)[i].resp.kind = "throw"
        /\ tasks[t].pc = "next"

(***************************************************************************)
(* C5: checkTokenSafety returns true if and only if all five sub-checks    *)
(* (mint authority, freeze authority, supply, honeypot, holder             *)
(* distribution) were evaluated and each returned passed = true.           *)
(***************************************************************************)
C5_TrueIffAllFivePassed ==
    \A t \in TaskIds : \A i \in DOMAIN Hist(t) :
        Hist(t)[i].ev = "safety" =>
            LET checks == SelectSeq(SubSeq(Hist(t), 1, i - 1),
                                    LAMBDA e : e.ev = "check")
            IN  Hist(t)[i].ok <=>
                    /\ Len(checks) = 5
                    /\ \A n \in 1..5 : checks[n].what = CheckOrder[n] /\ checks[n].ok

\* checkTokenSafety has returned true.
C5_Witness ==
    \E t \in TaskIds : \E i \in DOMAIN Hist(t) :
        Hist(t)[i].ev = "safety" /\ Hist(t)[i].ok /\ Len(Events(t, "check")) = 5

(***************************************************************************)
(* C6: snipeToken never requests a prebuilt swap transaction and never     *)
(* submits a transaction for a quote whose reported price impact exceeds   *)
(* 20 or whose slippage exceeds 5; such a quote ends the attempt as a      *)
(* rejected quote.                                                         *)
(***************************************************************************)
C6_NoSwapOverThresholds ==
    \A t \in TaskIds :
        LET quote == tasks[t].quote IN
        (/\ HasEv(t, "quote") /\ tasks[t].pc # "quote"
         /\ quote.kind = "quote"
         /\ Gt(quote.priceImpactPct, 20) \/ Gt(quote.slippageBps, 5 * 100))
        => /\ \A ev \in {"build", "executeSwap", "sign", "send", "confirm",
                         "portfolio", "log", "notify"} : ~HasEv(t, ev)
           /\ ExitedAs(t, "price_impact") \/ ExitedAs(t, "slippage")
           /\ ~LastEv(t).ok
           /\ Written(t) = <<0, 0, 0>>

\* A quote within the price-impact limit and over the slippage limit has
\* ended the attempt.
C6_Witness ==
    \E t \in TaskIds :
        /\ tasks[t].quote.kind = "quote"
        /\ tasks[t].quote.priceImpactPct = 2 /\ tasks[t].quote.slippageBps = 501
        /\ ExitedAs(t, "slippage")

FailExits ==
    {"insufficient_balance", "quote_failed", "price_impact", "slippage",
     "build_failed", "deserialize_failed", "swap_failed", "transaction_failed"}

C8_FailedAttemptWritesNothing ==
    \A t \in TaskIds :
        (\E i \in DOMAIN Hist(t) :
            Hist(t)[i].ev = "exit" /\ Hist(t)[i].what \in FailExits)
        => /\ Written(t) = <<0, 0, 0>>
           /\ \A ev \in {"portfolio", "log", "notify"} : ~HasEv(t, ev)

\* A transaction that was sent and not confirmed, while the files hold an
\* earlier attempt's records.
C8_Witness ==
    \E t \in TaskIds :
        /\ ExitedAs(t, "transaction_failed")
        /\ Len(portfolio.tokens) = 1 /\ Len(snipeLog) = 1

(***************************************************************************)
(* C9: with DRY_RUN = true, a snipeToken attempt that reaches the          *)
(* execution step makes no signing or submission call, but a SnipeRecord   *)
(* is still appended with transaction signature "DRY_RUN_SIMULATION".      *)
(* As stated (C9_AsStated) this does not hold: the record is built and     *)
(* printed by logSuccessfulSnipe and appended nowhere.  What holds         *)
(* (C9_DryRunPrintsOnly): no signing or submission call, one call of       *)
(* logSuccessfulSnipe, and nothing written to the snipe log, the portfolio *)
(* or the notifier.                                                        *)
(***************************************************************************)
NoSubmission(t) ==
    \A ev \in {"executeSwap", "sign", "send", "confirm"} : ~HasEv(t, ev)

C9_DryRunPrintsOnly ==
    /\ DRY_RUN => /\ txCount = 0
                  /\ \A t \in TaskIds : NoSubmission(t)
                  /\ snipeLog = <<>> /\ portfolio = EmptyPortfolio
                  /\ \A i \in DOMAIN notifications : notifications[i].kind # "snipe"
    /\ \A t \in TaskIds :
          ExitedAs(t, "dry_run") =>
              /\ DRY_RUN /\ HasEv(t, "build") /\ Once(t, "logSuccessfulSnipe")
              /\ tasks[t].sig = DRY_RUN_SIMULATION

C9_AsStated ==
    \A t \in TaskIds :
        (DRY_RUN /\ ExitedAs(t, "dry_run")) =>
            /\ NoSubmission(t)
            /\ \E i \in DOMAIN snipeLog :
                  snipeLog[i].transaction = DRY_RUN_SIMULATION

\* A dry run has reached the execution step and returned.
C9_Witness ==
    \E t \in TaskIds : DRY_RUN /\ ExitedAs(t, "dry_run") /\ snipeLog = <<>>

(***************************************************************************)
(* C10: end to end, a candidate with liquidity 5000, market cap 50000,     *)
(* price 0.01, 24h volume 10000, last trade time now and a wrapped-SOL     *)
(* quote mint, with all safety checks passing and a quote reporting 2%     *)
(* price impact and 1% slippage, results in exactly one SnipeRecord        *)
(* appended and exactly one notification sent.  The candidate is PoolA,    *)
(* handed to handleRealTimePool; the handler has returned.                 *)
(***************************************************************************)
C10_EndToEnd ==
    \A t \in TaskIds :
        (/\ tasks[t].kind = "rt" /\ tasks[t].pc = "next"
         /\ Hist(t)[1].ev = "rtfilter" /\ Hist(t)[1].resp = PoolA)
        => /\ Mine(snipeLog, t) = 1
           /\ Mine(SelectSeq(notifications, LAMBDA n : n.kind = "snipe"), t) = 1

(***************************************************************************)
(* C11: end to end, a candidate whose market cap is 20000000 (above        *)
(* MAX_MARKET_CAP) and is otherwise eligible leads to zero execution       *)
(* attempts (no safety check, no quote, no swap) and zero writes to the    *)
(* portfolio file and the snipe log.  The candidate is TokenBig, listed by *)
(* the market-data API.                                                    *)
(***************************************************************************)
C11_OverCeilingNeverAttempted ==
    /\ \A t \in TaskIds :
          /\ tasks[t].token.mc <= MAX_MARKET_CAP
          /\ tasks[t].token.address # TokenBig.address
          /\ \A i \in DOMAIN Hist(t) :
                Hist(t)[i].what = TokenBig.address
                    => Hist(t)[i].ev = "filter" /\ ~Hist(t)[i].ok
    /\ \A i \in DOMAIN portfolio.tokens :
          /\ portfolio.tokens[i].mint # TokenBig.address
          /\ portfolio.tokens[i].marketCapAtSnipe <= MAX_MARKET_CAP
    /\ \A i \in DOMAIN snipeLog :
          /\ snipeLog[i].mint # TokenBig.address
          /\ snipeLog[i].marketCap <= MAX_MARKET_CAP
    /\ \A i \in DOMAIN notifications : notifications[i].mint # TokenBig.address

\* A pass has taken in a list holding TokenBig and has sniped and recorded
\* the eligible token listed next to it.
C11_Witness ==
    /\ TokenBig.address \in previouslySeenTokens
    /\ \E i \in DOMAIN snipeLog : snipeLog[i].mint = TokenB.address

(***************************************************************************)
(* C12: end to end, when the sell-quote HTTP response of the honeypot      *)
(* sub-check has status 400, checkHoneypot fails with a reason citing the  *)
(* sell-quote failure, checkTokenSafety returns false, the holder check is *)
(* not evaluated and snipeToken is never invoked for that candidate.       *)
(***************************************************************************)
C12_SellQuote400FailsSafety ==
    \A t \in TaskIds : \A i \in DOMAIN Hist(t) :
        (/\ Hist(t)[i].ev = "check" /\ Hist(t)[i].what = "honeypot"
         /\ HasEv(t, "sellquote")
         /\ Hist(t)[i].resp.kind = "http" /\ Hist(t)[i].resp.status = 400)
        => /\ ~Hist(t)[i].ok
           /\ Hist(t)[i].note = "Sell quote failed"
           /\ i + 1 = Len(Hist(t))
           /\ LastEv(t).ev = "safety" /\ ~LastEv(t).ok
           /\ Len(Events(t, "check")) = 4
           /\ ~HasEv(t, "snipe")
           /\ tasks[t].pc = "next"

\* The buy quote was usable and the sell quote came back with status 400.
C12_Witness ==
    \E t \in TaskIds :
        /\ HasEv(t, "sellquote")
        /\ Len(Events(t, "check")) = 4
        /\ Events(t, "check")[4].resp = NoQuote("http", 400)
        /\ tasks[t].pc = "next"

(***************************************************************************)
(* C13: checkHoneypot fails whenever the buy quote or the sell quote is    *)
(* absent or has zero output (a non-zero buy with a zero-output sell fails *)
(* with a reason indicating inability to sell), whenever round-trip price  *)
(* impact exceeds 50%, whenever recovered value is below 50% of the input, *)
(* or whenever either leg's reported slippage exceeds 20%; it passes only  *)
(* when none of these holds.  The input is 1 USDT = 1000000 units.         *)
(***************************************************************************)
AbsentOrZero(quote) == quote.kind # "quote" \/ quote.outAmount = 0

\* Does a pair of quotes meet one of the failure conditions?
HoneypotConditions(buy, sell) ==
    \/ AbsentOrZero(buy)
    \/ AbsentOrZero(sell)
    \/ (1000000 - sell.outAmount) * 100 > 50 * 1000000
    \/ sell.outAmount * 100 < 50 * 1000000
    \/ (buy.priceImpactPct # NaN /\ buy.priceImpactPct > 20)
    \/ (sell.priceImpactPct # NaN /\ sell.priceImpactPct > 20)

C13_HoneypotFailsIffCondition ==
    \A t \in TaskIds : \A i \in DOMAIN Hist(t) :
        (Hist(t)[i].ev = "check" /\ Hist(t)[i].what = "honeypot"
            /\ Hist(t)[i].resp # NoResp) =>
            IF HasEv(t, "sellquote")
            THEN LET buy == Hist(t)[Place(t, "sellquote")].resp
                     sell == Hist(t)[i].resp
                 IN  /\ ~AbsentOrZero(buy)
                     /\ Hist(t)[i].ok <=> ~HoneypotConditions(buy, sell)
                     /\ (sell.kind = "quote" /\ sell.outAmount = 0)
                           => Hist(t)[i].note = "Sell quote returned 0 USDT"
            ELSE AbsentOrZero(Hist(t)[i].resp) /\ ~Hist(t)[i].ok

\* The check has passed on a sell quote that recovers exactly half.
C13_Witness ==
    \E t \in TaskIds : \E i \in DOMAIN Hist(t) :
        /\ Hist(t)[i].ev = "check" /\ Hist(t)[i].what = "honeypot"
        /\ Hist(t)[i].resp = Quote(500000, 1, 100) /\ Hist(t)[i].ok
        /\ Hist(t)[Place(t, "sellquote")].resp = Quote(5000, 20, 100)

(***************************************************************************)
(* C14: passesSnipeFilters rejects every token whose liquidity is below    *)
(* MIN_LIQUIDITY regardless of all other fields, and likewise each other   *)
(* threshold (exclusion list, market-cap band, price band, last-trade age, *)
(* 24h volume floor, volume-to-market-cap ratio, 24h price-change ceiling, *)
(* suspicious name/symbol substring) rejects on its own: violating any     *)
(* single threshold while satisfying all others yields rejection, and      *)
(* satisfying all yields acceptance.                                       *)
(***************************************************************************)
Suspicious(str) ==
    \E sub \in suspiciousNames : Includes(ToLowerCase(str), sub)

\* The thresholds a token violates at time at (in seconds).
Violated(token, at) ==
    {th \in {"exclusion", "liquidity", "marketcap", "price", "age", "volume",
             "ratio", "change", "name"} :
        CASE th = "exclusion" -> token.address \in EXCLUDED_TOKENS
          [] th = "liquidity" -> token.liquidity < MIN_LIQUIDITY
          [] th = "marketcap" -> token.mc < MIN_MARKET_CAP \/ token.mc > MAX_MARKET_CAP
          [] th = "price" -> SciLess(token.price, Sci(1, -6)) \/ SciLess(Sci(1, 3), token.price)
          [] th = "age" -> at - token.lastTradeUnixTime > MAX_TOKEN_AGE_MINUTES * 60
          [] th = "volume" -> token.v24hUSD < MIN_VOLUME_24H
          [] th = "ratio" -> token.v24hUSD * 100 < 5 * token.mc
          [] th = "change" -> token.v24hChangePercent > 1000
                                \/ token.v24hChangePercent < -1000
          [] th = "name" -> Suspicious(token.name) \/ Suspicious(token.symbol)}

IsEvaluation(e) == e.ev = "filter" /\ e.resp.kind = "evaluation"

C14_RejectsIffSomeThresholdViolated ==
    \A t \in TaskIds : \A i \in DOMAIN Hist(t) :
        IsEvaluation(Hist(t)[i]) =>
            LET token == Hist(t)[i].resp.token
                at == Hist(t)[i].resp.at
            IN  /\ Hist(t)[i].ok <=> Violated(token, at) = {}
                /\ token.liquidity < MIN_LIQUIDITY => ~Hist(t)[i].ok

\* A token that violates the volume-to-market-cap ratio only was rejected.
C14_Witness ==
    \E t \in TaskIds : \E i \in DOMAIN Hist(t) :
        /\ IsEvaluation(Hist(t)[i]) /\ ~Hist(t)[i].ok
        /\ Violated(Hist(t)[i].resp.token, Hist(t)[i].resp.at) = {"ratio"}

(***************************************************************************)
(* C15: the Filter Stage is a pure, deterministic predicate: two           *)
(* evaluations of passesSnipeFilters on the same token metrics with the    *)
(* same configuration constants return the same result regardless of when  *)
(* they are evaluated, and they modify no state.                           *)
(* As stated (C15_AsStated) this does not hold: the last-trade age test    *)
(* reads Date.now(), so a token accepted now is rejected an hour later.    *)
(* What holds (C15_SameResultAtSameTime): two evaluations of the same      *)
(* token at the same clock reading return the same result, and a step that *)
(* evaluates the filter writes no file, sends nothing and touches no other *)
(* pass.                                                                   *)
(***************************************************************************)
\* Task t takes a step in which it evaluates the filter.
EvaluatesFilter(t) ==
    /\ tasks[t].pc \in {"fetch", "enhanced"}
    /\ tasks'[t] # tasks[t]
    /\ \E i \in DOMAIN tasks'[t].hist : IsEvaluation(tasks'[t].hist[i])

C16_FailedLookupDroppedForGood ==
    /\ \A sig \in Sigs : lookups[sig] <= 1
    /\ \A sig \in dropped :
          /\ EmitCount(sig) = 0
          /\ lookups[sig] = 1 /\ inflight[sig] = 0
          /\ sig \in seenTransactions

\* A signature whose lookup failed has been delivered again.
C16_Witness ==
    \E sig \in dropped : deliveries[sig] = MaxDeliveries /\ EmitCount(sig) = 0

(***************************************************************************)
(* C17: within one snipeToken attempt, the balance check, the quote        *)
(* request, the swap-build request and the transaction submission are each *)
(* performed at most once, and after any reject/fail exit no further step  *)
(* is performed for that attempt: every attempt ends in Recorded or in a   *)
(* reject/fail terminal state with no transition back to an earlier step.  *)
(* (With DRY_RUN set, an attempt that reaches the execution step ends      *)
(* there instead, after printing its simulated record.)                    *)
(***************************************************************************)
SnipeSteps ==
    <<"snipe", "balance", "quote", "build", "logSuccessfulSnipe", "executeSwap",
      "sign", "send", "confirm", "portfolio", "log", "notify", "exit">>

Rank(ev) == CHOOSE n \in DOMAIN SnipeSteps : SnipeSteps[n] = ev
IsSnipeStep(e) == \E n \in DOMAIN SnipeSteps : SnipeSteps[n] = e.ev

C18_AtMostOneSubscription ==
    subscriptions <= 1

(***************************************************************************)
(* C19: in account-change mode, onNewPool is invoked at most once per pool *)
(* account id, and only for a notification whose decoded pool open time is *)
(* after the timestamp captured when the subscription was set up; a decode *)
(* failure emits nothing.                                                  *)
(* changes holds every notification handled with the number of onNewPool   *)
(* calls its callback made; emittedPools holds the pool infos handed over. *)
(***************************************************************************)
\* The notifications that led to an onNewPool call for a pool.
EmittingChanges(poolId) ==
    {i \in DOMAIN changes : changes[i].poolId = poolId /\ changes[i].calls > 0}

C19_OncePerPoolAfterSetup ==
    /\ \A poolId \in PoolIds :
          /\ Cardinality(EmittingChanges(poolId)) <= 1
          /\ Cardinality({k \in DOMAIN emittedPools :
                             emittedPools[k].poolId = poolId})
                = Cardinality(EmittingChanges(poolId))
    /\ \A i \in DOMAIN changes :
          /\ changes[i].calls <= 1
          /\ changes[i].calls > 0 =>
                /\ changes[i].data.kind = "state"
                /\ changes[i].data.poolOpenTime > changes[i].runTimestamp
          /\ changes[i].data.kind = "bad" => changes[i].calls = 0

\* Two subscriptions were set up at different times.  PoolY arrived with
\* data that did not decode and was not announced; PoolX was announced once,
\* by the later subscription; a further notification of PoolX, again with an
\* open time after the timestamp, announced nothing.
C19_Witness ==
    /\ Len(accountSubs) = 2 /\ accountSubs[1] < accountSubs[2]
    /\ Len(changes) = 3
    /\ changes[1].poolId = "PoolY" /\ changes[1].data.kind = "bad"
    /\ changes[1].calls = 0
    /\ changes[2].poolId = "PoolX" /\ changes[2].calls = 1
    /\ changes[2].runTimestamp = accountSubs[2]
    /\ changes[3].poolId = "PoolX" /\ changes[3].calls = 0
    /\ changes[3].data.kind = "state"
    /\ changes[3].data.poolOpenTime > changes[3].runTimestamp
    /\ Len(emittedPools) = 1 /\ emittedPools[1].poolId = "PoolX"

(***************************************************************************)
(* C20: the snipe log is append-only: every write performed by             *)
(* logSnipeToFile leaves all previously stored records unchanged and in    *)
(* the same order, and adds exactly one record at the end; no operation of *)
(* the bot removes or modifies an existing record.                         *)
(***************************************************************************)
C20_SnipeLogAppendOnly ==
    [][\/ snipeLog' = snipeLog
       \/ /\ Len(snipeLog') = Len(snipeLog) + 1
          /\ SubSeq(snipeLog', 1, Len(snipeLog)) = snipeLog]_vars

\* A second record was written behind the first, by another call.
C20_Witness ==
    /\ Len(snipeLog) = 2
    /\ snipeLog[1].by # snipeLog[2].by
    /\ snipeLog[1].transaction # snipeLog[2].transaction

(***************************************************************************)
(* C21: if a required credential (BIRDEYE_API_KEY or PRIVATE_KEY_BASE58)   *)
(* is missing when the sniper starts, the process exits immediately: no    *)
(* subscription is registered, no polling pass runs, and no file is        *)
(* written.                                                                *)
(***************************************************************************)
CredentialMissing ==
    \/ env.BIRDEYE_API_KEY \in {"undefined", ""}
    \/ env.PRIVATE_KEY_BASE58 \in {"undefined", ""}

C21_MissingCredentialExits ==
    CredentialMissing =>
        /\ exited
        /\ subscriptions = 0 /\ accountSubs = <<>> /\ starts = 0
        /\ \A t \in TaskIds : tasks[t] = IdleTask
        /\ previouslySeenTokens = {}
        /\ portfolio = EmptyPortfolio /\ snipeLog = <<>>
        /\ notifications = <<>> /\ txCount = 0

\* The process has exited on an empty API key while the private key was
\* there, and the clock has gone on.
C21_Witness ==
    /\ env.BIRDEYE_API_KEY = "" /\ env.PRIVATE_KEY_BASE58 = "key"
    /\ exited /\ ticks = 1
    /\ subscriptions = 0 /\ \A t \in TaskIds : tasks[t] = IdleTask

(***************************************************************************)
(* C22: no exception and no rejected promise arising while a log event is  *)
(* processed (transaction lookup or the onNewPool handler, including an    *)
(* asynchronous handler that rejects) escapes the subscription callback;   *)
(* every such failure is caught locally.                                   *)
(* The callback does not await the promise onNewPool returns, so its        *)
(* rejection is outside the try block of lines 49-57.                      *)
(***************************************************************************)
C22_EveryFailureCaught ==
    escaped = {}

(***************************************************************************)
(* C23: a real-time candidate that lacks address, baseMint or quoteMint,   *)
(* or whose quoteMint is not the wrapped-SOL mint, is rejected by          *)
(* passesRealTimeFilters before any enhancement, comprehensive filter,     *)
(* safety check or snipe is performed for it; a candidate with all three   *)
(* fields and a wrapped-SOL quote mint whose later filter and safety       *)
(* checks pass is sniped exactly once.                                     *)
(* The first event of a handler call is its passesRealTimeFilters, with    *)
(* the candidate as resp; the enhanced info is the task's token.           *)
(***************************************************************************)
Incomplete(poolInfo) ==
    \/ poolInfo.address = "" \/ poolInfo.baseMint = "" \/ poolInfo.quoteMint = ""
    \/ poolInfo.quoteMint # WSOL

HandlerCall(t) ==
    /\ tasks[t].kind \in {"rt", "test"}
    /\ Hist(t) # <<>>

C23_IncompleteRejectedFirstCompleteSnipedOnce ==
    \A t \in TaskIds :
        HandlerCall(t) =>
            /\ Hist(t)[1].ev = "rtfilter"
            /\ Incomplete(Hist(t)[1].resp) =>
                  /\ ~Hist(t)[1].ok
                  /\ Len(Hist(t)) = 1
                  /\ tasks[t].token = NoToken
            /\ (/\ ~Incomplete(Hist(t)[1].resp)
                /\ \E i \in DOMAIN Hist(t) : Hist(t)[i].ev = "filter" /\ Hist(t)[i].ok
                /\ \E i \in DOMAIN Hist(t) : Hist(t)[i].ev = "safety" /\ Hist(t)[i].ok)
                  => /\ Hist(t)[1].ok
                     /\ Once(t, "snipe")
                     /\ Hist(t)[Place(t, "snipe")].what = Hist(t)[1].resp.address

\* The bot's handler has rejected a candidate without its baseMint, and the
\* test's handler has sniped a complete candidate once and is to return.
C23_Witness ==
    /\ tasks[1].kind = "rt" /\ Hist(1) # <<>>
    /\ Hist(1)[1].resp.baseMint = "" /\ Hist(1)[1].resp.address = "TokenA"
    /\ ~Hist(1)[1].ok
    /\ tasks[2].kind = "test" /\ tasks[2].pc = "return"
    /\ Hist(2)[1].resp = PoolA /\ Once(2, "snipe")

(***************************************************************************)
(* C24: the separate on-demand portfolio viewer updates the mutable        *)
(* currentPrice/currentValue/profitLoss fields of the Portfolio's entries, *)
(* and leaves every other field of every entry (the fields mirroring the   *)
(* SnipeRecord) unchanged.                                                 *)
(* Neither viewer writes the portfolio file: the fetched price lives in a  *)
(* copy in memory, so a stored entry keeps the price of its snipe.         *)
(***************************************************************************)
C24_ViewerUpdatesStoredEntries ==
    viewer.pc \in {"done", "failed"} =>
        \A i \in DOMAIN viewer.updatedTokens :
            LET kept == viewer.updatedTokens[i].currentPrice
                before == viewer.loaded.tokens[i]
            IN  kept # <<>> =>
                    portfolio.tokens[i] = [before EXCEPT !.currentPrice = kept[1]]

(***************************************************************************)
(* C25: two overlapping invocations of the log-subscription callback for   *)
(* the same transaction signature can both pass the not-seen check before  *)
(* either inserts the signature into the seen set.                         *)
(* The test (line 41) and the insert (line 42) have no await between them, *)
(* so they run in one segment of the event loop: of the invocations for    *)
(* one signature, overlapping or not, the first alone passes the test.     *)
(***************************************************************************)
C25_OnlyFirstPasses ==
    \A sig \in Sigs :
        /\ unseen[sig] <= 1
        /\ unseen[sig] = 1 <=> sig \in seenTransactions
        /\ deliveries[sig] > 0 => unseen[sig] = 1

\* As stated, of the run the claim describes: when a second invocation for
\* a signature has run while the lookup of the first is in flight, both have
\* passed the test.
C25_AsStated ==
    \A sig \in Sigs :
        (deliveries[sig] = 2 /\ inflight[sig] >= 1) => unseen[sig] = 2

\* A second invocation for a signature has run while the lookup of the first
\* was in flight, and did not pass.
C25_Witness ==
    \E sig \in Sigs :
        /\ deliveries[sig] = 2 /\ lookups[sig] = 1 /\ inflight[sig] = 1
        /\ unseen[sig] = 1

(***************************************************************************)
(* C26: within the Pool Monitor, events are processed in delivery order:   *)
(* for two pool-initialization events where e1 is delivered before e2 and  *)
(* both yield candidates, the candidate of e1 is handed to onNewPool       *)
(* before the candidate of e2, even when their transaction lookups are in  *)
(* flight concurrently.                                                    *)
(* The callbacks start in delivery order, and each hands its candidate     *)
(* over when its own lookup resolves: the lookup of e2 may resolve first.  *)
(***************************************************************************)
StartedAt(sig) == CHOOSE i \in DOMAIN started : started[i] = sig

\* Lookups start in delivery order, one per signature, and a candidate is
\* handed over only for a started lookup that is no longer in flight.
C26_StartedInOrderHandedOverAsResolved ==
    /\ \A i, j \in DOMAIN started : i # j => started[i] # started[j]
    /\ \A i \in DOMAIN started : lookups[started[i]] = 1
    /\ \A k \in DOMAIN emitted :
          /\ \E i \in DOMAIN started : started[i] = emitted[k].signature
          /\ inflight[emitted[k].signature] = 0
    /\ \A k, l \in DOMAIN emitted : k # l => emitted[k].signature # emitted[l].signature

\* As stated: candidates are handed over in the order of their deliveries.
C26_AsStated ==
    \A k, l \in DOMAIN emitted :
        k < l => StartedAt(emitted[k].signature) < StartedAt(emitted[l].signature)

\* Two lookups were in flight together and the later one resolved first.
C26_Witness ==
    /\ Len(started) = 2 /\ Len(emitted) = 2
    /\ emitted[1].signature = started[2]
    /\ emitted[2].signature = started[1]

(***************************************************************************)
(* C27: a token detected by both the subscription-driven path and the      *)
(* polling path within one process can receive two snipeToken invocations  *)
(* (one from each path) before either has recorded it.                     *)
(* The handler of the subscription path never comes to snipeToken: the     *)
(* enhanced info carries price, market cap and liquidity 0 and the         *)
(* comprehensive filter rejects it.                                        *)
(***************************************************************************)
\* snipeToken was invoked for the address by a call of the given kind that
\* has not recorded it.
SnipingUnrecorded(t, kind, address) ==
    /\ tasks[t].kind = kind
    /\ \E i \in DOMAIN Hist(t) :
          Hist(t)[i].ev = "snipe" /\ Hist(t)[i].what = address
    /\ ~ExitedAs(t, "recorded")

\* As stated, of the run the claim describes: while the polling path is at
\* its snipeToken for TokenA, not yet recorded, a handler call that was
\* given the pool of TokenA and is about to return has invoked snipeToken
\* for it too.
C27_SnipedByBothPaths ==
    \A t, u \in TaskIds :
        (/\ tasks[t].kind = "rt" /\ tasks[t].pc = "next"
         /\ Hist(t)[1].ev = "rtfilter" /\ Hist(t)[1].resp = PoolA
         /\ SnipingUnrecorded(u, "poll", "TokenA"))
        => SnipingUnrecorded(t, "rt", "TokenA")

(***************************************************************************)
(* C28: the portfolio file has no locking: two writers running             *)
(* addTokenToPortfolio against the same file (for example two bot          *)
(* processes) can interleave their load and save steps so that one         *)
(* writer's added entry and totals are silently overwritten and lost.      *)
(* What always holds is less than "every entry is kept": the file is what   *)
(* the last writer saved, its totals fit its own entries, and it holds at  *)
(* most one entry for each addTokenToPortfolio that has completed.         *)
(***************************************************************************)
\* The calls of addTokenToPortfolio that have completed: those of the other
\* processes and those of this one (each of which also wrote the snipe log).
SavedBy == {w \in OtherWriters : writers[w].pc = "saved"}
Completed == Cardinality(SavedBy) + Len(snipeLog)

C28_FileIsTheLastSave ==
    /\ portfolio.totalInvested = Len(portfolio.tokens) * SNIPE_AMOUNT_USDT
    /\ Len(portfolio.tokens) <= Completed
    /\ Completed > 0 => Len(portfolio.tokens) >= 1
    /\ \A i, j \in DOMAIN portfolio.tokens :
          i # j => portfolio.tokens[i].by # portfolio.tokens[j].by
    /\ \A i \in DOMAIN portfolio.tokens :
          portfolio.tokens[i].by[1] \in OtherWriters
              => portfolio.tokens[i].by[1] \in SavedBy

\* Both other processes have saved an entry, each on top of the empty file
\* it had loaded: the file holds the entry and the total of one of them.
C28_Witness ==
    /\ SavedBy = OtherWriters
    /\ \A w \in OtherWriters : writers[w].loaded = EmptyPortfolio
    /\ Len(portfolio.tokens) = 1
    /\ portfolio.totalInvested = SNIPE_AMOUNT_USDT
    /\ Len(snipeLog) = 0

C30_OneSnipePerAddress ==
    \A i, j \in DOMAIN snipeLog :
        i # j => snipeLog[i].mint # snipeLog[j].mint

(***************************************************************************)
(* C31: every token address returned by a polling pass is marked seen in   *)
(* that pass, whether or not the token passed the filters or was among the *)
(* processed ones; a token that appeared in an earlier pass is never       *)
(* classified as new, safety-checked or sniped by a later pass, even if it *)
(* passes the filters only then.  A pass is earlier than another when its  *)
(* list arrived first.                                                     *)
(***************************************************************************)
Listed(pass) == pass.newListings \o pass.tokens
ListedBy(pass) == {Listed(pass)[i].address : i \in DOMAIN Listed(pass)}

C31_ListedOnceSeenForGood ==
    /\ previouslySeenTokens = UNION {ListedBy(passes[i]) : i \in DOMAIN passes}
    /\ \A i, j \in DOMAIN passes :
          i < j =>
            LET t == passes[j].by
                earlier == ListedBy(passes[i])
            IN  /\ tasks[t].token.address \notin earlier
                /\ \A k \in DOMAIN tasks[t].queue :
                      tasks[t].queue[k].token.address \notin earlier
                /\ \A k \in DOMAIN Hist(t) :
                      Hist(t)[k].ev \in {"check", "safety", "snipe"}
                          => tasks[t].token.address \notin earlier
                /\ \A k \in DOMAIN snipeLog :
                      snipeLog[k].by[1] = t => snipeLog[k].mint \notin earlier

\* An earlier pass listed TokenC over the market-cap ceiling; a later pass
\* listed it inside every threshold, evaluated it as passing, took no token
\* and ended.
C31_Witness ==
    \E i, j \in DOMAIN passes :
        /\ i < j
        /\ \E k \in DOMAIN passes[i].tokens :
              /\ passes[i].tokens[k] = TokenBig
              /\ ~PassesSnipeFilters(TokenBig, passes[i].at)
        /\ Listed(passes[j]) = <<TokenLate>>
        /\ PassesSnipeFilters(TokenLate, passes[j].at)
        /\ tasks[passes[j].by].pc = "done" /\ tasks[passes[j].by].att = 0
        /\ \E k \in DOMAIN Hist(passes[j].by) :
              /\ Hist(passes[j].by)[k].ev = "filter"
              /\ Hist(passes[j].by)[k].what = "TokenC" /\ Hist(passes[j].by)[k].ok

(***************************************************************************)
(* C32: a single polling pass safety-checks and snipe-attempts at most 3   *)
(* tokens, taken in list order with new listings before regular token-list *)
(* entries, and processes them strictly one after another: the safety      *)
(* check of the next token starts only after the snipe attempt of the      *)
(* previous one has finished (or its safety check has failed).             *)
(***************************************************************************)
\* The tokens pass j is to process: of its new listings followed by its
\* token list, those inside the thresholds and listed by no earlier pass,
\* up to the third.
Processed(j) ==
    LET pass == passes[j]
        before == UNION {ListedBy(passes[i]) : i \in 1..(j - 1)}
        kept == SelectSeq(pass.newListings \o pass.tokens,
                          LAMBDA token : /\ PassesSnipeFilters(token, pass.at)
                                         /\ token.address \notin before)
    IN  SubSeq(kept, 1, IF Len(kept) < 3 THEN Len(kept) ELSE 3)

InListOrder ==
    \A j \in DOMAIN passes :
        LET t == passes[j].by
            n == tasks[t].att
        IN  /\ n <= 3 /\ n <= Len(Processed(j))
            /\ (n >= 1 /\ tasks[t].pc # "done") =>
                  /\ tasks[t].token = Processed(j)[n]
                  /\ Len(tasks[t].queue) = Len(Processed(j)) - n
                  /\ \A k \in DOMAIN tasks[t].queue :
                        tasks[t].queue[k].token = Processed(j)[n + k]
            /\ tasks[t].pc = "done" => n = Len(Processed(j))
            /\ \A k \in DOMAIN snipeLog :
                  snipeLog[k].by[1] = t =>
                      snipeLog[k].mint = Processed(j)[snipeLog[k].by[2]].address

\* The step that starts the safety check of a pass's next token.
TakesNextToken(t) ==
    /\ tasks[t].kind = "poll" /\ tasks[t].att >= 1
    /\ tasks'[t].att = tasks[t].att + 1

C32_AtMostThreeInOrderOneByOne ==
    [][/\ InListOrder'
       /\ \A t \in TaskIds :
             TakesNextToken(t) =>
                 /\ tasks[t].pc = "next" /\ tasks'[t].pc = "mint"
                 /\ \/ LastEv(t).ev = "exit"
                    \/ LastEv(t).ev = "safety" /\ ~LastEv(t).ok]_vars

\* A pass answered five tokens has sniped TokenA, TokenB and TokenD, in
\* that order, and ended without touching TokenE.
C32_Witness ==
    /\ passes # <<>> /\ Len(Listed(passes[1])) = 5
    /\ tasks[passes[1].by].pc = "done" /\ tasks[passes[1].by].att = 3
    /\ [k \in DOMAIN snipeLog |-> snipeLog[k].mint] = <<"TokenA", "TokenB", "TokenD">>

(***************************************************************************)
(* C33: when one bot process is the only writer and both files start       *)
(* absent or valid, then after any number of successful snipes, attempts   *)
(* in flight together included, the number of portfolio entries added      *)
(* equals the number of snipe-log records added by the process, and        *)
(* totalInvested has grown by SNIPE_AMOUNT_USDT times that number: no      *)
(* update made inside one process is lost.                                 *)
(***************************************************************************)
\* The records of a file that this process added.
Added(seq) == SelectSeq(seq, LAMBDA r : r.by # Earlier)

C33_NoUpdateLostInProcess ==
    LET stored == \E i \in DOMAIN snipeLog : snipeLog[i].by = Earlier
        startPortfolio == IF stored THEN StoredPortfolio ELSE EmptyPortfolio
        startLog == IF stored THEN StoredLog ELSE <<>>
        n == Len(Added(snipeLog))
    IN  /\ Len(snipeLog) = Len(startLog) + n
        /\ SubSeq(snipeLog, 1, Len(startLog)) = startLog
        /\ Len(portfolio.tokens) = Len(startPortfolio.tokens) + n
        /\ SubSeq(portfolio.tokens, 1, Len(startPortfolio.tokens))
              = startPortfolio.tokens
        /\ [k \in 1..n |-> Added(portfolio.tokens)[k].by]
              = [k \in 1..n |-> Added(snipeLog)[k].by]
        /\ \A k, l \in 1..n : k # l => Added(snipeLog)[k].by # Added(snipeLog)[l].by
        /\ portfolio.totalInvested
              = startPortfolio.totalInvested + SNIPE_AMOUNT_USDT * n

\* Two attempts in flight together have both recorded their snipe on top of
\* what the files held at the start.
C33_Witness ==
    /\ \A t \in TaskIds : tasks[t].pc = "notify"
    /\ Len(Added(snipeLog)) = 2
    /\ Len(snipeLog) = 4 /\ Len(portfolio.tokens) = 3

(***************************************************************************)
(* C34: after stopMonitoring has returned on a RealTimePoolMonitor,        *)
(* onNewPool is never invoked again for events delivered afterwards, until *)
(* startMonitoring is called again.  It does not hold: stopMonitoring      *)
(* clears isMonitoring and leaves the onLogs subscription registered, and  *)
(* the callback does not read the flag.                                    *)
(***************************************************************************)
C34_NoHandlerCallAfterStop ==
    \A sig \in stoppedDeliveries : EmitCount(sig) = 0

(***************************************************************************)
(* C35: whenever a swap transaction has been submitted (sendRawTransaction *)
(* returned a signature), either its confirmation reports an on-chain      *)
(* error or a portfolio entry and a snipe-log record carrying that         *)
(* signature are eventually written.  Once snipeToken has returned nothing *)
(* more is written for the attempt, so the claim requires of every         *)
(* returned attempt that had its transaction accepted: the confirmation    *)
(* reported an error, or both records are there.  It does not hold: a      *)
(* confirmTransaction call that throws ends the attempt unrecorded.        *)
(***************************************************************************)
RecordedWith(sig) ==
    /\ \E i \in DOMAIN portfolio.tokens :
          portfolio.tokens[i].transactionSignature = sig
    /\ \E i \in DOMAIN snipeLog : snipeLog[i].transaction = sig

C35_SubmittedSwapRecordedOrFailed ==
    \A t \in TaskIds :
        (HasEv(t, "confirm") /\ LastEv(t).ev = "exit") =>
            \/ LastEv(t).what = "transaction_failed"
            \/ RecordedWith(tasks[t].sig)

(***************************************************************************)
(* C36: in checkHoneypot the computed round-trip price impact equals 100   *)
(* minus the recovery rate, so whenever the price-impact check passes      *)
(* (impact <= 50) the recovery check also passes (recovery >= 50): the     *)
(* 'Poor sell recovery' exit is never taken.  As stated (C36_AsStated) it  *)
(* does not hold: a buy quote whose outAmount does not parse to a number   *)
(* makes the price impact NaN, which is not above 50, and the recovery     *)
(* rate is then the only test of the sell output.  What holds              *)
(* (C36_RecoveryExitOnlyOnUnparsedBuy): for integer amounts the impact is  *)
(* 100 minus the recovery and the exit is not taken; with an unparsed buy  *)
(* amount and a sell output under half of the input, the exit is taken.    *)
(***************************************************************************)
\* The honeypot checks of task t that had both quotes: <<buy, sell, event>>.
RoundTrips(t) ==
    {<<Hist(t)[Place(t, "sellquote")].resp, Hist(t)[i].resp, Hist(t)[i]>> :
        i \in {k \in DOMAIN Hist(t) :
                  /\ Hist(t)[k].ev = "check" /\ Hist(t)[k].what = "honeypot"
                  /\ HasEv(t, "sellquote")
                  /\ Hist(t)[k].resp.kind = "quote"
                  /\ Hist(t)[k].resp.outAmount # 0}}

BalanceShort(bal) ==
    \/ bal.kind \in {"throw", "none"}
    \/ bal.kind = "account" /\ bal.amount < SNIPE_AMOUNT_USDT * 1000000

C37_NoBalanceNoAttempt ==
    \A t \in TaskIds : \A i \in DOMAIN Hist(t) :
        (/\ Hist(t)[i].ev = "balance" /\ Hist(t)[i].resp # NoResp
         /\ BalanceShort(Hist(t)[i].resp))
        => /\ i + 1 = Len(Hist(t))
           /\ ExitedAs(t, "insufficient_balance")
           /\ \A ev \in {"quote", "build", "logSuccessfulSnipe", "executeSwap",
                          "sign", "send", "confirm", "portfolio", "log", "notify"} :
                 ~HasEv(t, ev)
           /\ tasks[t].quote = NoQuote("none", 0) /\ tasks[t].sig = NoSig
           /\ Written(t) = <<0, 0, 0>>

\* In dry-run mode an attempt has returned on a balance one unit short of
\* the snipe amount.
C37_Witness ==
    \E t \in TaskIds :
        /\ DRY_RUN /\ ExitedAs(t, "insufficient_balance")
        /\ \E i \in DOMAIN Hist(t) :
              /\ Hist(t)[i].ev = "balance"
              /\ Hist(t)[i].resp = Balance("account", 999999)

====
